---- MODULE Spec2Model ----
(***************************************************************************)
(* A model of pypredefgen: the walker that turns a live module into a tree *)
(* of declaration nodes (src/pypredefgen.py, insert_ast_nodes) and the     *)
(* passes of process_ast_nodes that normalise the tree.                    *)
(*                                                                         *)
(* The live object graph is the input.  It is chosen in Init and never     *)
(* changes: the pipeline only reads it.  Classes are new-style classes, so *)
(* inspect.getmro is the C3 linearization.                                 *)
(***************************************************************************)
EXTENDS Integers, Sequences, FiniteSets, TLC

VARIABLES
  live,                                  \* the live object graph (the input)
  pc,                                    \* the statement of generate_predefined_completions / process_ast_nodes to run next
  module_node,                           \* module_element.node: the ast.Module, [body |-> Seq(node)]
  node_element_map,                      \* Element.node_element_map: node id -> Element
  module_specific_processing_functions,  \* module name -> Seq(pass name)
  steps,                                 \* history: the pipeline steps entered so far, in order
  prev_body,                             \* history: module_node.body as it was before the last pass
  gimp_progress,                         \* the GimpProgress object: [num_total_tasks, num_finished_tasks]
  plugin,                                \* the arguments and locals of generate_predefined_completions_for_pydev
  calls,                                 \* history: the calls of GimpProgress.update made so far
  call,                                  \* a call of a function of the module: its arguments and what it returned
  pypredef_files                         \* the files written in PYPREDEF_FILES_DIR: file name -> the tree written

vars == <<live, pc, module_node, node_element_map,
          module_specific_processing_functions, steps, prev_body,
          gimp_progress, plugin, calls, call, pypredef_files>>

-----------------------------------------------------------------------------
(* Bounds of the model. *)

\* Number of classes defined by the walked module.
NumClasses == 3
\* Largest number of direct base classes of a class.
MaxBases == 2
\* Largest number of declared parameters of a routine.
MaxParams == 2
\* Largest num_total_tasks a GimpProgress is made with.
MaxTotalTasks == 3
\* Largest number of calls of GimpProgress.update made on one object.
MaxCalls == 4
\* Largest number of lines of the modules file.
MaxModules == 2
\* The number of classes the walk is inside of, one within the other, when
\* Python's recursion limit (sys.getrecursionlimit() frames) is reached: the
\* class met at that depth is registered by class_element.set_node, and the
\* limit is reached in the walk of its first member.
MaxRecursionDepth == 4
\* Largest number of calls of module_specific_processing_functions.update a
\* caller makes before it generates.
MaxRegistrations == 2

-----------------------------------------------------------------------------
(* Generic helpers. *)

Range(s) == {s[i] : i \in 1..Len(s)}

Min(S) == CHOOSE x \in S : \A y \in S : x <= y

Reverse(s) == [i \in 1..Len(s) |-> s[Len(s) + 1 - i]]

\* list.insert(i, x) with a 0-based index i (i >= len appends).
ListInsert(s, i, x) ==
  IF i >= Len(s) THEN Append(s, x)
  ELSE SubSeq(s, 1, i) \o <<x>> \o SubSeq(s, i + 1, Len(s))

\* del list[i] with a 0-based index i.
ListDel(s, i) == SubSeq(s, 1, i) \o SubSeq(s, i + 2, Len(s))

\* 0-based positions of the elements of s that of the given kind, ascending.
IndicesOfKind(s, kind) ==
  SelectSeq([i \in 1..Len(s) |-> i - 1], LAMBDA i : s[i + 1].kind = kind)

\* All sequences over S of length 0..n.
SeqsUpTo(S, n) == UNION {[1..k -> S] : k \in 0..n}

-----------------------------------------------------------------------------
(* Names.  A dotted name is a sequence of components; a component keeps    *)
(* its number of leading underscores apart, so that str.startswith("_"),   *)
(* s[1:] and str.lstrip("_") are computed and not assumed.                 *)

N(s) == [us |-> 0, base |-> s]
U(s) == [us |-> 1, base |-> s]

\* Python's None.
None == "<None>"

\* The name of the built-in module, "__builtin__".
BUILTIN == <<[us |-> 2, base |-> "builtin__"]>>

\* No module (a module_root of None).
NoModule == <<>>

\* dir() lists names sorted; these are the names a module can hold, sorted
\* as Python sorts them (by code point).
ModuleDir ==
  <<"A", "Alias", "B", "BMAX", "Balias", "C", "D", "E",
    "__doc__", "__name__", "func", "sub">>

\* The names gimp.pdb can hold, sorted.
PdbDir ==
  <<"__class__", "__doc__", "gimp_edit_copy", "plug_in_blur", "query", "temp_procedure_1">>

\* The names a class can hold, sorted.
ClassDir == <<"__class__", "__doc__", "__module__", "a", "f", "n", "x">>

\* The names of the classes the walked module defines (their __name__).
ClassNames == <<"A", "B", "C", "D", "E">>

ModuleClasses == {ClassNames[i] : i \in 1..NumClasses}

\* A class of another module, and the built-in classes.
ForeignClasses == {"X"}
\* A class whose __module__ names a module that is not loaded:
\* inspect.getmodule finds no module for it.
LostClasses == {"Lost"}
BuiltinClasses ==
  {"object", "type", "int", "str", "NoneType", "function", "instancemethod",
   "builtin_function_or_method", "method_descriptor", "module"}

-----------------------------------------------------------------------------
(* Live objects. *)

ClassObj(c)  == [kind |-> "class", cls |-> c]
ValueObj(c)  == [kind |-> "value", cls |-> c]
\* A documentation string, as the value of __doc__.
DocObj(d)    == [kind |-> "value", cls |-> "str", doc |-> d]
ModuleObj(n) == [kind |-> "module", name |-> n]
NoneObj      == [kind |-> "none"]

\* A routine: what inspect.getargspec and inspect.getdoc see of it.  An
\* opaque routine is one written in C, for which getargspec raises
\* TypeError.  method tells the routine got from a class (an unbound method,
\* or the method descriptor of a class written in C) from the function.
RoutineObj(opaque, args, vararg, kwarg, defaults, doc) ==
  [kind |-> "routine", opaque |-> opaque, args |-> args, vararg |-> vararg,
   kwarg |-> kwarg, defaults |-> defaults, doc |-> doc, method |-> FALSE]

\* The foreign class X of module "ext": its own attributes.
ForeignOwn ==
  [c \in ForeignClasses |->
     [n \in {"__doc__", "__module__", "a", "f"} |->
        CASE n = "__doc__" -> NoneObj
          [] n = "__module__" -> ValueObj("str")
          [] n = "a" -> ValueObj("int")
          [] n = "f" -> RoutineObj(FALSE, <<"self", "p">>, None, None, <<>>, "d1")]]

\* dir(object) of the built-in object, reduced to the names of ClassDir.
ObjectOwn == [n \in {"__doc__"} |-> DocObj("dobject")]

\* The class Lost(object): it defines nothing but what every class has.
LostOwn ==
  [n \in {"__doc__", "__module__"} |->
     IF n = "__doc__" THEN NoneObj ELSE ValueObj("str")]

\* cls.__bases__
Bases(L, c) ==
  IF c \in DOMAIN L.bases THEN L.bases[c]
  ELSE IF c \in ForeignClasses \cup LostClasses THEN <<"object">>
  ELSE <<>>

\* The attributes a class defines itself (cls.__dict__).
Own(L, c) ==
  IF c \in DOMAIN L.own THEN L.own[c]
  ELSE IF c \in ForeignClasses THEN ForeignOwn[c]
  ELSE IF c \in LostClasses THEN LostOwn
  ELSE IF c = "object" THEN ObjectOwn
  ELSE << >>

\* cls.__module__ / inspect.getmodule(cls).__name__
ClassModule(L, c) ==
  IF c \in DOMAIN L.bases THEN L.cmodule[c]
  ELSE IF c \in ForeignClasses THEN <<N("ext")>>
  ELSE IF c \in LostClasses THEN <<N("lost")>>
  ELSE BUILTIN

-----------------------------------------------------------------------------
(* inspect.getmro: the C3 linearization. *)

BadMro == "<inconsistent>"

InTail(x, seqs) ==
  \E i \in 1..Len(seqs) : Len(seqs[i]) > 0 /\ x \in Range(Tail(seqs[i]))

RECURSIVE c3merge(_)
c3merge(seqs) ==
  LET ne == SelectSeq(seqs, LAMBDA s : Len(s) > 0) IN
  IF Len(ne) = 0 THEN <<>>
  ELSE LET cands == {i \in 1..Len(ne) : ~InTail(Head(ne[i]), ne)} IN
       IF cands = {} THEN <<BadMro>>
       ELSE LET h == Head(ne[Min(cands)])
                rest == [j \in 1..Len(ne) |-> SelectSeq(ne[j], LAMBDA y : y # h)]
            IN  <<h>> \o c3merge(rest)

RECURSIVE getmro(_, _)
getmro(L, c) ==
  LET bs == Bases(L, c) IN
  <<c>> \o c3merge([i \in 1..Len(bs) |-> getmro(L, bs[i])] \o <<bs>>)

RECURSIVE Ancestors(_, _, _)
Ancestors(L, S, n) ==
  IF n = 0 THEN S
  ELSE Ancestors(L, S \cup UNION {Range(Bases(L, c)) : c \in S}, n - 1)

\* The proper ancestors of class c.
AncestorsOf(L, c) == Ancestors(L, Range(Bases(L, c)), Cardinality(DOMAIN L.bases) + 2)

\* A hierarchy Python accepts: no class is its own ancestor and every class
\* has a linearization.
ValidHierarchy(L) ==
  /\ \A c \in DOMAIN L.bases : c \notin AncestorsOf(L, c)
  /\ \A c \in DOMAIN L.bases : BadMro \notin Range(getmro(L, c))

-----------------------------------------------------------------------------
(* Reflection on live objects. *)

inspect_ismodule(o)  == o.kind = "module"
inspect_isclass(o)   == o.kind = "class"
inspect_isroutine(o) == o.kind = "routine"

\* dir(cls): the names of the class and of all its ancestors, sorted.
ClassAttrNames(L, c) ==
  {"__class__"} \cup UNION {DOMAIN Own(L, k) : k \in Range(getmro(L, c))}

\* getattr(cls, name): the attribute of the first class of the MRO that
\* defines it; __class__ of a class is its metaclass.
RECURSIVE Lookup(_, _, _)
Lookup(L, mro, name) ==
  IF mro = <<>> THEN NoneObj
  ELSE IF name \in DOMAIN Own(L, Head(mro)) THEN Own(L, Head(mro))[name]
  ELSE Lookup(L, Tail(mro), name)

\* A function found in a class comes as an unbound method of Python 2.
AsMethod(o) == IF o.kind = "routine" THEN [o EXCEPT !.method = TRUE] ELSE o

ClassGetattr(L, c, name) ==
  IF name = "__class__" THEN ClassObj("type")
  ELSE AsMethod(Lookup(L, getmro(L, c), name))

\* dir(element.object) of a module, of gimp.pdb or of a class.
Dir(L, o) ==
  IF inspect_ismodule(o)
  THEN SelectSeq(ModuleDir, LAMBDA n : n \in DOMAIN L.members)
  ELSE IF o.kind = "pdb"
  THEN SelectSeq(PdbDir, LAMBDA n : n \in DOMAIN L.members)
  ELSE SelectSeq(ClassDir, LAMBDA n : n \in ClassAttrNames(L, o.cls))

\* getattr(element.object, child_member_name, None)
Getattr(L, o, name) ==
  IF inspect_ismodule(o) \/ o.kind = "pdb" THEN L.members[name]
  ELSE ClassGetattr(L, o.cls, name)

\* object_.__class__ : the class of a live object.
ClassOf(o) ==
  CASE o.kind = "class"   -> "type"
    [] o.kind = "value"   -> o.cls
    [] o.kind = "none"    -> "NoneType"
    [] o.kind = "routine" ->
         IF o.opaque
         THEN (IF o.method THEN "method_descriptor" ELSE "builtin_function_or_method")
         ELSE (IF o.method THEN "instancemethod" ELSE "function")
    [] o.kind = "module"  -> "module"
    [] o.kind = "pdb"     -> "pdb"
    [] o.kind = "pdbfunction" -> "PDBFunction"

\* The text of a __doc__ attribute: None when it holds no string.
DocOf(attr) == IF "doc" \in DOMAIN attr THEN attr.doc ELSE None

\* inspect.getdoc(object): Python 2 reads the object's own __doc__.
inspect_getdoc(L, o) ==
  CASE o.kind = "class" ->
         (IF "__doc__" \in DOMAIN Own(L, o.cls) THEN DocOf(Own(L, o.cls)["__doc__"]) ELSE None)
    [] o.kind = "routine" -> o.doc
    [] o.kind = "module"  -> DocOf(L.members["__doc__"])
    [] o.kind = "pdb"     -> DocOf(L.members["__doc__"])
    [] o.kind = "pdbfunction" -> o.doc
    [] OTHER -> None

-----------------------------------------------------------------------------
(* Naming of types. *)

lstrip_underscores(comp) == [comp EXCEPT !.us = 0]

\* module_name[1:] for a name that starts with "_".
StripFirstChar(module_name) ==
  <<[module_name[1] EXCEPT !.us = @ - 1]>> \o Tail(module_name)

startswith_underscore(module_name) == module_name[1].us > 0

\* A variant of _get_module_name_without_internal_component that keeps the
\* internal component.
get_module_name_with_internal_component(module_name) == module_name

get_module_name_without_internal_component(module_name) ==
  IF Len(module_name) >= 2 /\ module_name[1] = lstrip_underscores(module_name[2])
  THEN <<module_name[1]>> \o SubSeq(module_name, 3, Len(module_name))
  ELSE module_name

module_names_equal(module_name1, module_name2) ==
  \/ module_name1 = module_name2
  \/ (startswith_underscore(module_name1) /\ StripFirstChar(module_name1) = module_name2)
  \/ get_module_name_without_internal_component(module_name1) = module_name2
  \/ (startswith_underscore(module_name2) /\ module_name1 = StripFirstChar(module_name2))
  \/ module_name1 = get_module_name_without_internal_component(module_name2)

\* inspect.getmodule(type_).__name__, NoModule when there is no module.
inspect_getmodule(L, type_) ==
  IF type_ \in LostClasses THEN NoModule ELSE ClassModule(L, type_)

get_full_type_name(L, type_, module_root) ==
  LET type_module == inspect_getmodule(L, type_) IN
  IF type_module # NoModule /\ type_module # BUILTIN
  THEN IF module_root # NoModule /\ module_names_equal(type_module, module_root)
       THEN <<N(type_)>>
       ELSE get_module_name_without_internal_component(type_module) \o <<N(type_)>>
  ELSE <<N(type_)>>

get_full_type_name_from_object(L, object_, module_root) ==
  get_full_type_name(L, ClassOf(object_), module_root)

RECURSIVE StripCommon(_, _)
StripCommon(module_path_components, module_root_path_components) ==
  IF /\ module_root_path_components # <<>>
     /\ Len(module_path_components) > 1
     /\ Head(module_root_path_components) = Head(module_path_components)
  THEN StripCommon(Tail(module_path_components), Tail(module_root_path_components))
  ELSE module_path_components

get_relative_module_name(module, module_root) == StripCommon(module, module_root)

RECURSIVE external_modules_from(_, _, _, _)
external_modules_from(L, subclass, bases, external_modules) ==
  IF bases = <<>> THEN external_modules
  ELSE LET base_module == ClassModule(L, Head(bases))
           external_module_name == get_module_name_without_internal_component(base_module)
       IN  external_modules_from(L, subclass, Tail(bases),
             IF /\ base_module # BUILTIN
                /\ ~module_names_equal(base_module, ClassModule(L, subclass))
                /\ external_module_name \notin Range(external_modules)
             THEN Append(external_modules, external_module_name)
             ELSE external_modules)

\* A variant of _get_external_module_names_for_base_classes that finds no
\* base class external.
get_no_external_module_names(L, subclass) == <<>>

get_external_module_names_for_base_classes(L, subclass) ==
  external_modules_from(L, subclass, Bases(L, subclass), <<>>)

-----------------------------------------------------------------------------
(* Declaration nodes.  A node has an identity (id), as an object has in    *)
(* Python: list.index and dictionary lookups go by it.                     *)

NodeId(path, tag, extra) == [path |-> path, tag |-> tag, extra |-> extra]

IsImport(node)      == node.kind = "Import"
IsClassDef(node)    == node.kind = "ClassDef"
IsFunctionDef(node) == node.kind = "FunctionDef"
IsAssign(node)      == node.kind = "Assign"
IsExpr(node)        == node.kind = "Expr"
IsPass(node)        == node.kind = "Pass"

PassNode(id) == [kind |-> "Pass", id |-> id]

\* ast.Expr(value=ast.Str(s=doc))
DocNode(id, doc) == [kind |-> "Expr", id |-> id, s |-> doc]

\* ast.get_docstring(node)
ast_get_docstring(node) ==
  IF node.body # <<>> /\ IsExpr(node.body[1]) THEN node.body[1].s ELSE None

Element(object_, name_from_dir, module) ==
  [object |-> object_, name_from_dir |-> name_from_dir, module |-> module]

get_ast_node_for_import_by_module_name(id, module_name) ==
  [kind |-> "Import", id |-> id, names |-> <<module_name>>]

get_ast_node_for_import(id, module_element) ==
  get_ast_node_for_import_by_module_name(
    id, get_relative_module_name(module_element.object.name, module_element.module))

\* get_ast_arguments_for_routine with a fallback that names a variadic.
get_ast_arguments_for_routine_with_vararg(routine) ==
  IF routine.opaque
  THEN [args |-> <<>>, vararg |-> "args", kwarg |-> None, defaults |-> <<>>]
  ELSE [args |-> routine.args, vararg |-> routine.vararg, kwarg |-> routine.kwarg,
        defaults |-> routine.defaults]

get_ast_arguments_for_routine(routine) ==
  IF routine.opaque
  THEN [args |-> <<>>, vararg |-> None, kwarg |-> None, defaults |-> <<>>]
  ELSE [args |-> routine.args, vararg |-> routine.vararg, kwarg |-> routine.kwarg,
        defaults |-> routine.defaults]

get_ast_node_for_function(id, function_element) ==
  [kind |-> "FunctionDef", id |-> id, name |-> function_element.name_from_dir,
   args |-> get_ast_arguments_for_routine(function_element.object),
   body |-> <<PassNode(NodeId(id.path, "pass", <<>>))>>]

\* get_ast_node_for_method inserting self whatever the arguments are.
get_ast_node_for_method_always_inserting_self(id, method_element) ==
  LET arguments == get_ast_arguments_for_routine(method_element.object) IN
  [kind |-> "FunctionDef", id |-> id, name |-> method_element.name_from_dir,
   args |-> [arguments EXCEPT !.args = <<"self">> \o @],
   body |-> <<PassNode(NodeId(id.path, "pass", <<>>))>>]

get_ast_node_for_method(id, method_element) ==
  LET arguments == get_ast_arguments_for_routine(method_element.object) IN
  [kind |-> "FunctionDef", id |-> id, name |-> method_element.name_from_dir,
   args |-> IF arguments.args = <<>>
            THEN [arguments EXCEPT !.args = <<"self">>] ELSE arguments,
   body |-> <<PassNode(NodeId(id.path, "pass", <<>>))>>]

get_ast_node_for_assignment_of_type_to_name(L, id, element) ==
  [kind |-> "Assign", id |-> id, targets |-> <<element.name_from_dir>>,
   value |-> [tag |-> "Name",
              id |-> IF element.object # NoneObj
                     THEN get_full_type_name_from_object(L, element.object, element.module)
                     ELSE <<N("None")>>]]

\* "if text:" for a documentation string or None.
Truthy(text) == text # None /\ text # ""

\* insert_ast_docstring putting the documentation after the other nodes.
insert_ast_docstring_appending(L, object_, node) ==
  LET member_dostring == inspect_getdoc(L, object_) IN
  IF Truthy(member_dostring)
  THEN [node EXCEPT !.body = Append(@, DocNode(NodeId(node.id.path, "doc", <<>>), member_dostring))]
  ELSE node

\* insert_ast_docstring(element), on the node of the element.
insert_ast_docstring(L, object_, node) ==
  LET member_dostring == inspect_getdoc(L, object_) IN
  IF Truthy(member_dostring)
  THEN [node EXCEPT !.body = <<DocNode(NodeId(node.id.path, "doc", <<>>), member_dostring)>> \o @]
  ELSE node

can_inspect_class_element(class_element) == class_element.name_from_dir # "__class__"

-----------------------------------------------------------------------------
(* The walker.  acc is [body, reg, error]: element.node.body, the entries  *)
(* the walk added to Element.node_element_map, and whether the recursion   *)
(* of insert_ast_nodes into classes went as deep as Python lets it (it     *)
(* does for a class that is reached from itself: Python ends the walk with *)
(* a RuntimeError, and the entries registered on the way stay).            *)
(* stack holds the classes being walked, the outermost first.              *)

RECURSIVE insert_each(_, _, _, _, _, _)
RECURSIVE insert_ast_node(_, _, _, _, _, _, _)
RECURSIVE get_ast_node_for_class(_, _, _, _, _)

insert_ast_nodes(L, element, path, stack, acc) ==
  insert_each(L, Dir(L, element.object), element, path, stack, acc)

insert_each(L, names, element, path, stack, acc) ==
  IF names = <<>> \/ acc.error THEN acc
  ELSE insert_each(L, Tail(names), element, path, stack,
                   insert_ast_node(L, Head(names), element, NoModule, path, stack, acc))

\* insert_ast_node(child_member_name, element, module=None)
insert_ast_node(L, child_member_name, element, module_, path, stack, acc) ==
  LET module == IF module_ = NoModule THEN element.module ELSE module_
      child_element ==
        Element(Getattr(L, element.object, child_member_name), child_member_name, module)
      child_path == Append(path, child_member_name)
      id == NodeId(child_path, "member", <<>>)
  IN
  IF inspect_ismodule(child_element.object)
  THEN [acc EXCEPT !.body = <<get_ast_node_for_import(id, child_element)>> \o @,
                   !.reg  = (id :> child_element) @@ @]
  ELSE IF inspect_isclass(child_element.object) /\ can_inspect_class_element(child_element)
  THEN LET made == get_ast_node_for_class(L, child_element, child_path, element.module, stack)
           external_module_names ==
             get_external_module_names_for_base_classes(L, child_element.object.cls)
           imports ==
             [i \in 1..Len(external_module_names) |->
                get_ast_node_for_import_by_module_name(
                  NodeId(child_path, "import", external_module_names[i]),
                  external_module_names[i])]
       IN  IF made.error THEN [acc EXCEPT !.error = TRUE, !.reg = made.reg @@ @]
           ELSE [acc EXCEPT
                   !.body = imports \o Append(@,
                              insert_ast_docstring(L, child_element.object, made.node)),
                   !.reg  = made.reg @@ @]
  ELSE IF inspect_isroutine(child_element.object)
  THEN LET node == IF ~inspect_isclass(element.object)
                   THEN get_ast_node_for_function(id, child_element)
                   ELSE get_ast_node_for_method(id, child_element)
       IN  [acc EXCEPT
              !.body = Append(@, insert_ast_docstring(L, child_element.object, node)),
              !.reg  = (id :> child_element) @@ @]
  ELSE [acc EXCEPT
          !.body = Append(@, get_ast_node_for_assignment_of_type_to_name(L, id, child_element)),
          !.reg  = (id :> child_element) @@ @]

\* Returns [node, reg, error]: the ast.ClassDef with its members, and the
\* registry entries of the class element and of its members.
get_ast_node_for_class(L, class_element, path, module_root, stack) ==
  LET class_ == class_element.object.cls
      id == NodeId(path, "member", <<>>)
      bases == Bases(L, class_)
      name_assign ==
        IF class_element.name_from_dir # class_
        THEN <<[kind |-> "Assign", id |-> NodeId(path, "name", <<>>),
                targets |-> <<"__name__">>,
                value |-> [tag |-> "Str",
                           id |-> get_full_type_name(L, class_, module_root)]]>>
        ELSE <<>>
      node == [kind |-> "ClassDef", id |-> id, name |-> class_element.name_from_dir,
               bases |-> [i \in 1..Len(bases) |->
                            get_full_type_name(L, bases[i], module_root)],
               body |-> <<>>]
  IN  IF Len(stack) >= MaxRecursionDepth
      THEN [node |-> [node EXCEPT !.body = name_assign],
            reg |-> (id :> class_element), error |-> TRUE]
      ELSE LET walked == insert_ast_nodes(L, class_element, path, Append(stack, class_),
                           [body |-> name_assign, reg |-> (id :> class_element),
                            error |-> FALSE])
           IN  [node |-> [node EXCEPT !.body = walked.body],
                reg  |-> walked.reg, error |-> walked.error]

-----
(* The Element registry. *)

\* Element.node_element_map_per_module[module]: set_node files every node
\* under the module of its element.
\* A node made by an earlier run of the pipeline.  The registry is keyed by
\* the node objects, which hash by identity: the node an earlier run made
\* for a member is another key than the node a later run makes for it.
EarlierNode(id) == [id EXCEPT !.path = <<"earlier run">> \o @]

\* A registry that is keyed by the place of a node in its tree and keeps the
\* element registered first: a later run finds the elements of an earlier
\* one.
node_element_map_per_place(reg, module) ==
  [id \in {i \in DOMAIN reg : reg[i].module = module} |->
     IF EarlierNode(id) \in DOMAIN reg THEN reg[EarlierNode(id)] ELSE reg[id]]

node_element_map_per_module(reg, module) ==
  [id \in {i \in DOMAIN reg : reg[i].module = module} |-> reg[id]]

\* The first 0-based index of the node in body, -1 when it is not there
\* (list.index raises ValueError).
NodeIndex(body, id) ==
  LET at == SelectSeq([i \in 1..Len(body) |-> i - 1], LAMBDA i : body[i + 1].id = id) IN
  IF at = <<>> THEN -1 ELSE at[1]

NodeById(body, id) == body[NodeIndex(body, id) + 1]

\* A variant of _remove_ast_node that takes the index of a node that is
\* not there to be -1, and deletes at it.
remove_ast_node_deleting_last(id, parent_body) ==
  LET node_index == NodeIndex(parent_body, id) IN
  IF node_index = -1 THEN SubSeq(parent_body, 1, Len(parent_body) - 1)
  ELSE ListDel(parent_body, node_index)

remove_ast_node(id, parent_body) ==
  LET node_index == NodeIndex(parent_body, id) IN
  IF node_index = -1 THEN parent_body ELSE ListDel(parent_body, node_index)

\* collections.OrderedDict of (class, element): a key keeps the place of its
\* first insertion and the value of its last.  keys: the classes in order;
\* node: class -> id of the node of its element.
get_class_element_map(reg, class_nodes, module) ==
  LET node_element_map_for_module == node_element_map_per_module(reg, module)
      objs == [i \in 1..Len(class_nodes) |->
                 node_element_map_for_module[class_nodes[i].id].object.cls]
      firsts == SelectSeq([i \in 1..Len(objs) |-> i],
                          LAMBDA i : \A j \in 1..(i - 1) : objs[j] # objs[i])
      last(c) == CHOOSE i \in 1..Len(objs) :
                   objs[i] = c /\ \A j \in (i + 1)..Len(objs) : objs[j] # c
  IN  [keys |-> [k \in 1..Len(firsts) |-> objs[firsts[k]]],
       node |-> [c \in Range(objs) |-> class_nodes[last(c)].id]]

-----------------------------------------------------------------------------
(* remove_redundant_members_from_subclasses *)

MinOf(a, b) == IF a < b THEN a ELSE b

routine_signatures_equal(routine_node1, routine_node2) ==
  /\ \A i \in 1..MinOf(Len(routine_node1.args.args), Len(routine_node2.args.args)) :
       routine_node1.args.args[i] = routine_node2.args.args[i]
  /\ routine_node1.args.vararg = routine_node2.args.vararg
  /\ routine_node1.args.kwarg = routine_node2.args.kwarg
  /\ \A i \in 1..MinOf(Len(routine_node1.args.defaults), Len(routine_node2.args.defaults)) :
       routine_node1.args.defaults[i] = routine_node2.args.defaults[i]

routine_docstrings_equal(routine_node1, routine_node2) ==
  ast_get_docstring(routine_node1) = ast_get_docstring(routine_node2)

routine_nodes_equal(routine_node1, routine_node2) ==
  /\ routine_node1.name = routine_node2.name
  /\ routine_signatures_equal(routine_node1, routine_node2)
  /\ routine_docstrings_equal(routine_node1, routine_node2)

assign_targets_equal(assign_node1, assign_node2) ==
  /\ Len(assign_node1.targets) = 1 /\ Len(assign_node2.targets) = 1
  /\ assign_node1.targets[1] = assign_node2.targets[1]

\* A variant of _assign_values_equal that does not look at the types.
assign_values_equal_ignoring_type(L, reg, assign_node1, assign_node2) == TRUE

\* Defined when both nodes are keys of Element.node_element_map.
assign_values_equal(L, reg, assign_node1, assign_node2) ==
  LET element1 == reg[assign_node1.id]
      element2 == reg[assign_node2.id]
      module_root == element1.module
  IN  get_full_type_name_from_object(L, element1.object, module_root)
        = get_full_type_name_from_object(L, element2.object, module_root)

\* "equal", "differ", or "KeyError" when the lookup of a node in
\* Element.node_element_map fails.
assign_nodes_equal(L, reg, assign_node1, assign_node2) ==
  IF ~assign_targets_equal(assign_node1, assign_node2) THEN "differ"
  ELSE IF assign_node1.id \notin DOMAIN reg \/ assign_node2.id \notin DOMAIN reg
  THEN "KeyError"
  ELSE IF assign_values_equal(L, reg, assign_node1, assign_node2) THEN "equal"
  ELSE "differ"

nodes_equal(L, reg, node1, node2) ==
  IF IsFunctionDef(node1)
  THEN (IF routine_nodes_equal(node1, node2) THEN "equal" ELSE "differ")
  ELSE assign_nodes_equal(L, reg, node1, node2)

\* _remove_node: the verdict of the scan of the parent's nodes of one type:
\* "equal" at the first equal node, "KeyError" when a comparison raises
\* before that, "differ" when the scan ends.
RECURSIVE scan_member_nodes(_, _, _, _)
scan_member_nodes(L, reg, class_member_node, member_nodes_of_type) ==
  IF member_nodes_of_type = <<>> THEN "differ"
  ELSE LET verdict == nodes_equal(L, reg, class_member_node, Head(member_nodes_of_type)) IN
       IF verdict = "differ"
       THEN scan_member_nodes(L, reg, class_member_node, Tail(member_nodes_of_type))
       ELSE verdict

\* The verdict for one member node of a class against the member nodes of
\* one parent ("differ" for a node that is neither FunctionDef nor Assign).
remove_redundant_class_member_node(L, reg, class_member_node, parent_class_member_nodes) ==
  IF IsFunctionDef(class_member_node)
  THEN scan_member_nodes(L, reg, class_member_node,
                         SelectSeq(parent_class_member_nodes, IsFunctionDef))
  ELSE IF IsAssign(class_member_node)
  THEN scan_member_nodes(L, reg, class_member_node,
                         SelectSeq(parent_class_member_nodes, IsAssign))
  ELSE "differ"

\* The loop over list(class_member_nodes) for one parent: class_body is
\* class_node.body.  Returns [body, error].
RECURSIVE remove_members(_, _, _, _, _)
remove_members(L, reg, class_member_nodes, parent_class_member_nodes, class_body) ==
  IF class_member_nodes = <<>> THEN [body |-> class_body, error |-> FALSE]
  ELSE LET verdict == remove_redundant_class_member_node(
                        L, reg, Head(class_member_nodes), parent_class_member_nodes)
       IN  IF verdict = "KeyError" THEN [body |-> class_body, error |-> TRUE]
           ELSE remove_members(L, reg, Tail(class_member_nodes), parent_class_member_nodes,
                  IF verdict = "equal"
                  THEN remove_ast_node(Head(class_member_nodes).id, class_body)
                  ELSE class_body)

\* The module body with class_body as the body of the class node id.  The
\* state st of one run of the pass is [body, reg, member_nodes, ext, visited,
\* error]: the module body, the registry, member_nodes_for_classes,
\* external_class_nodes_map, visited_classes, and whether an exception was
\* raised.
ReplaceBody(module_body, id, class_body) ==
  [i \in 1..Len(module_body) |->
     IF module_body[i].id = id THEN [module_body[i] EXCEPT !.body = class_body]
     ELSE module_body[i]]

\* external_class_nodes_map[class_] = class_node, with the registry entries
\* that making the node added.
add_external_class_node(st, class_, made) ==
  [st EXCEPT !.ext = (class_ :> made.node) @@ @, !.reg = made.reg @@ @,
             !.error = made.error]

\* _get_ast_node_for_external_class: st with the node of class_ in st.ext.
get_ast_node_for_external_class(L, st, class_) ==
  IF class_ \in DOMAIN st.ext THEN st
  ELSE add_external_class_node(st, class_,
         get_ast_node_for_class(
           L, Element(ClassObj(class_), class_, inspect_getmodule(L, class_)),
           <<"<external>", class_>>, NoModule, <<>>))

\* _get_class_member_nodes: st with the snapshot list(class_node.body) of
\* class_ in st.member_nodes, taken at the first request.
get_class_member_nodes(st, class_, class_node) ==
  IF class_ \in DOMAIN st.member_nodes THEN st
  ELSE [st EXCEPT !.member_nodes = (class_ :> class_node.body) @@ @]

\* parent_class_node: the node of the module for a class of
\* class_element_map, the synthesized node of st.ext for another class.
parent_class_node_of(cem, st, parent_class) ==
  IF parent_class \in DOMAIN cem.node
  THEN NodeById(st.body, cem.node[parent_class])
  ELSE st.ext[parent_class]

\* class_node.body after the removals, and whether a comparison raised.
set_class_body(st, id, removed) ==
  [st EXCEPT !.body = ReplaceBody(@, id, removed.body), !.error = removed.error]

\* The loop over list(class_member_nodes) for one parent, st holding the
\* snapshots of both classes.
remove_redundant_members(L, cem, st, class_, parent_class) ==
  set_class_body(st, cem.node[class_],
    remove_members(L, st.reg, st.member_nodes[class_], st.member_nodes[parent_class],
                   NodeById(st.body, cem.node[class_]).body))

\* One round of the loop "for parent_class in class_.__bases__", st holding
\* the node of the parent.
for_parent_class(L, cem, st, class_, parent_class) ==
  IF st.error THEN st
  ELSE remove_redundant_members(L, cem,
         get_class_member_nodes(st, parent_class, parent_class_node_of(cem, st, parent_class)),
         class_, parent_class)

\* The loop "for parent_class in class_.__bases__".
RECURSIVE for_parent_classes(_, _, _, _, _)
for_parent_classes(L, cem, st, class_, parents) ==
  IF parents = <<>> \/ st.error THEN st
  ELSE for_parent_classes(L, cem,
         for_parent_class(L, cem,
           IF Head(parents) \in DOMAIN cem.node THEN st
           ELSE get_ast_node_for_external_class(L, st, Head(parents)),
           class_, Head(parents)),
         class_, Tail(parents))

\* visited_classes.add(class_), reached when no comparison raised.
add_visited_class(st, class_) ==
  IF st.error THEN st ELSE [st EXCEPT !.visited = @ \cup {class_}]

\* The body of the loop over reversed(mro_for_class) for a class of
\* class_element_map that was not visited.
for_class_of_mro(L, cem, st, class_) ==
  add_visited_class(
    for_parent_classes(L, cem,
      get_class_member_nodes(st, class_, NodeById(st.body, cem.node[class_])),
      class_, Bases(L, class_)),
    class_)

\* The loop "for class_ in reversed(mro_for_class)".
RECURSIVE for_classes_of_mro(_, _, _, _)
for_classes_of_mro(L, cem, st, classes) ==
  IF classes = <<>> \/ st.error THEN st
  ELSE for_classes_of_mro(L, cem,
         IF Head(classes) \in DOMAIN cem.node /\ Head(classes) \notin st.visited
         THEN for_class_of_mro(L, cem, st, Head(classes))
         ELSE st,
         Tail(classes))

\* The loop over the MROs of the classes of class_element_map.
RECURSIVE for_mros(_, _, _, _)
for_mros(L, cem, st, classes_in_module) ==
  IF classes_in_module = <<>> \/ st.error THEN st
  ELSE for_mros(L, cem,
                for_classes_of_mro(L, cem, st, Reverse(getmro(L, Head(classes_in_module)))),
                Tail(classes_in_module))

\* Returns [body, reg, error, ...]: the module body and the registry after
\* the pass, and whether the pass raised.
remove_redundant_members_from_subclasses(L, reg, module, body) ==
  LET class_nodes == SelectSeq(body, IsClassDef)
      class_element_map == get_class_element_map(reg, class_nodes, module)
  IN  for_mros(L, class_element_map,
               [body |-> body, reg |-> reg, member_nodes |-> << >>, ext |-> << >>,
                visited |-> {}, error |-> FALSE],
               class_element_map.keys)

-----------------------------------------------------------------------------
(* sort_classes_by_hierarchy *)

\* _move_ordered_dict_element_to_end
move_ordered_dict_element_to_end(ordered_dict, element_key) ==
  Append(SelectSeq(ordered_dict, LAMBDA k : k # element_key), element_key)

\* _reverse_ordered_dict
reverse_ordered_dict(ordered_dict) == Reverse(ordered_dict)

\* The loop "for class_ in mro_for_class": the keys of class_nodes_new_order.
RECURSIVE order_classes_of_mro(_, _, _)
order_classes_of_mro(cem, class_nodes_new_order, classes) ==
  IF classes = <<>> THEN class_nodes_new_order
  ELSE LET class_ == Head(classes) IN
       order_classes_of_mro(cem,
         IF class_ \in DOMAIN cem.node
         THEN (IF cem.node[class_] \in Range(class_nodes_new_order)
               THEN move_ordered_dict_element_to_end(class_nodes_new_order, cem.node[class_])
               ELSE Append(class_nodes_new_order, cem.node[class_]))
         ELSE class_nodes_new_order,
         Tail(classes))

\* The loop over the MROs, taken in the order given.
RECURSIVE order_mros(_, _, _, _)
order_mros(L, cem, class_nodes_new_order, classes_in_module) ==
  IF classes_in_module = <<>> THEN class_nodes_new_order
  ELSE order_mros(L, cem,
         order_classes_of_mro(cem, class_nodes_new_order, getmro(L, Head(classes_in_module))),
         Tail(classes_in_module))

RECURSIVE remove_ast_nodes(_, _)
remove_ast_nodes(ids, body) ==
  IF ids = <<>> THEN body
  ELSE remove_ast_nodes(Tail(ids), remove_ast_node(Head(ids), body))

\* The loop over zip(class_nodes_and_indices, class_nodes_new_order).
RECURSIVE insert_class_nodes(_, _, _)
insert_class_nodes(positions, new_class_nodes, body) ==
  IF positions = <<>> \/ new_class_nodes = <<>> THEN body
  ELSE insert_class_nodes(Tail(positions), Tail(new_class_nodes),
                          ListInsert(body, Head(positions), Head(new_class_nodes)))

sort_classes_by_hierarchy(L, reg, module, body) ==
  LET class_nodes == SelectSeq(body, IsClassDef)
      class_element_map == get_class_element_map(reg, class_nodes, module)
      class_nodes_and_indices == IndicesOfKind(body, "ClassDef")
      class_nodes_new_order ==
        reverse_ordered_dict(
          order_mros(L, class_element_map, <<>>, Reverse(class_element_map.keys)))
      removed ==
        remove_ast_nodes(
          [i \in 1..Len(class_element_map.keys) |->
             class_element_map.node[class_element_map.keys[i]]],
          body)
  IN  insert_class_nodes(
        class_nodes_and_indices,
        [i \in 1..Len(class_nodes_new_order) |-> NodeById(body, class_nodes_new_order[i])],
        removed)

-----------------------------------------------------------------------------
(* remove_duplicate_imports *)

\* _ImportDeduplicator.import_node_names of a new _ImportDeduplicator class:
\* the class is created by each call of remove_duplicate_imports.
import_node_names == {}

\* visit_Import: the loop over reversed(list(enumerate(import_node.names))),
\* at 1-based index i; kept are the aliases not deleted.
RECURSIVE visit_aliases(_, _, _, _)
visit_aliases(names, i, kept, seen) ==
  IF i = 0 THEN [names |-> kept, seen |-> seen]
  ELSE IF names[i] \notin seen
       THEN visit_aliases(names, i - 1, <<names[i]>> \o kept, seen \cup {names[i]})
       ELSE visit_aliases(names, i - 1, kept, seen)

visit_Import(import_node, seen) ==
  visit_aliases(import_node.names, Len(import_node.names), <<>>, seen)

\* A variant of generic_visit that deletes from the list it iterates: the
\* node after a removed Import is not visited.
RECURSIVE generic_visit_skipping(_, _, _)
generic_visit_skipping(old, new_values, seen) ==
  IF old = <<>> THEN [body |-> new_values, seen |-> seen]
  ELSE LET node == Head(old) IN
       IF IsImport(node)
       THEN LET visited == visit_Import(node, seen) IN
            IF visited.names # <<>>
            THEN generic_visit_skipping(Tail(old),
                   Append(new_values, [node EXCEPT !.names = visited.names]), visited.seen)
            ELSE IF Tail(old) = <<>> THEN [body |-> new_values, seen |-> visited.seen]
            ELSE generic_visit_skipping(Tail(Tail(old)),
                   Append(new_values, Head(Tail(old))), visited.seen)
       ELSE IF IsClassDef(node)
       THEN LET visited == generic_visit_skipping(node.body, <<>>, seen) IN
            generic_visit_skipping(Tail(old),
              Append(new_values, [node EXCEPT !.body = visited.body]), visited.seen)
       ELSE generic_visit_skipping(Tail(old), Append(new_values, node), seen)

\* A variant of generic_visit that visits the Import nodes of the module
\* body only and leaves the class bodies alone.
RECURSIVE generic_visit_top_level(_, _, _)
generic_visit_top_level(old, new_values, seen) ==
  IF old = <<>> THEN [body |-> new_values, seen |-> seen]
  ELSE LET node == Head(old) IN
       IF IsImport(node)
       THEN LET visited == visit_Import(node, seen) IN
            generic_visit_top_level(Tail(old),
              IF visited.names # <<>>
              THEN Append(new_values, [node EXCEPT !.names = visited.names])
              ELSE new_values,
              visited.seen)
       ELSE generic_visit_top_level(Tail(old), Append(new_values, node), seen)

\* ast.NodeTransformer.generic_visit on a body: old are the nodes still to
\* visit, new_values the nodes kept.  Returns [body, seen].
RECURSIVE generic_visit(_, _, _)
generic_visit(old, new_values, seen) ==
  IF old = <<>> THEN [body |-> new_values, seen |-> seen]
  ELSE LET node == Head(old) IN
       IF IsImport(node)
       THEN LET visited == visit_Import(node, seen) IN
            generic_visit(Tail(old),
              IF visited.names # <<>>
              THEN Append(new_values, [node EXCEPT !.names = visited.names])
              ELSE new_values,
              visited.seen)
       ELSE IF IsClassDef(node)
       THEN LET visited == generic_visit(node.body, <<>>, seen) IN
            generic_visit(Tail(old),
              Append(new_values, [node EXCEPT !.body = visited.body]), visited.seen)
       ELSE generic_visit(Tail(old), Append(new_values, node), seen)

remove_duplicate_imports(body) == generic_visit(body, <<>>, import_node_names).body

-----------------------------------------------------------------------------
(* The cosmetic passes. *)

\* del body[i] for the indices, last first.
RECURSIVE delete_indices(_, _)
delete_indices(body, indices_reversed) ==
  IF indices_reversed = <<>> THEN body
  ELSE delete_indices(ListDel(body, Head(indices_reversed)), Tail(indices_reversed))

RECURSIVE insert_all_at(_, _, _)
insert_all_at(body, index, nodes) ==
  IF nodes = <<>> THEN body
  ELSE insert_all_at(ListInsert(body, index, Head(nodes)), index, Tail(nodes))

\* A variant of move_top_level_variables_to_end that appends the Assign
\* nodes last first.
move_top_level_variables_to_end_reversed(body) ==
  LET variable_indices == IndicesOfKind(body, "Assign")
      variable_nodes == [i \in 1..Len(variable_indices) |-> body[variable_indices[i] + 1]]
  IN  delete_indices(body, Reverse(variable_indices)) \o Reverse(variable_nodes)

move_top_level_variables_to_end(body) ==
  LET variable_indices == IndicesOfKind(body, "Assign")
      variable_nodes == [i \in 1..Len(variable_indices) |-> body[variable_indices[i] + 1]]
  IN  delete_indices(body, Reverse(variable_indices)) \o variable_nodes

\* The body of the loop of move_class_level_variables_before_methods, on
\* class_node.body.
move_variables_before_methods(class_body) ==
  LET class_variable_indices == IndicesOfKind(class_body, "Assign")
      class_variable_nodes ==
        [i \in 1..Len(class_variable_indices) |-> class_body[class_variable_indices[i] + 1]]
      without == delete_indices(class_body, Reverse(class_variable_indices))
      methods == IndicesOfKind(without, "FunctionDef")
      first_method_node_index == IF methods # <<>> THEN methods[1] ELSE Len(without)
  IN  insert_all_at(without, first_method_node_index, Reverse(class_variable_nodes))

move_class_level_variables_before_methods(body) ==
  [i \in 1..Len(body) |->
     IF IsClassDef(body[i])
     THEN [body[i] EXCEPT !.body = move_variables_before_methods(@)]
     ELSE body[i]]

\* A variant of fix_empty_class_bodies that adds no ast.Pass.
fix_empty_class_bodies_skipped(body) == body

\* ast.walk reaches every ClassDef of the tree.
RECURSIVE fix_empty_class_bodies(_)
fix_empty_class_bodies(body) ==
  [i \in 1..Len(body) |->
     IF IsClassDef(body[i])
     THEN [body[i] EXCEPT !.body =
             IF @ = <<>> THEN <<PassNode(NodeId(body[i].id.path, "pass", <<>>))>>
             ELSE fix_empty_class_bodies(@)]
     ELSE body[i]]

remove_class_docstrings(body) ==
  [i \in 1..Len(body) |->
     IF IsClassDef(body[i]) /\ Truthy(ast_get_docstring(body[i]))
     THEN [body[i] EXCEPT !.body = ListDel(@, 0)]
     ELSE body[i]]

-----------------------------------------------------------------------------
(* The inputs: the live modules the pipeline is run on. *)

IsInjective(s) == \A i, j \in 1..Len(s) : s[i] = s[j] => i = j

\* The names of the walked module: "gimp" has no module-specific passes,
\* "pango" has one in pypredefgen_gimp.
GIMP  == <<N("gimp")>>
PANGO == <<N("pango")>>
EXT   == <<N("ext")>>

\* The attributes every class has of its own.
DefaultOwn(doc) ==
  [n \in {"__doc__", "__module__"} |->
     IF n = "__doc__" THEN (IF doc = None THEN NoneObj ELSE DocObj(doc))
     ELSE ValueObj("str")]

\* The attributes in extra added to (or replacing those of) own; an extra
\* of Absent is left out.
Absent == [kind |-> "absent"]

WithAttrs(own, extra) ==
  [n \in DOMAIN own \cup {m \in DOMAIN extra : extra[m] # Absent} |->
     IF n \in DOMAIN extra /\ extra[n] # Absent THEN extra[n] ELSE own[n]]

\* A live module: its name, the classes it defines (bases, own attributes)
\* and the other names it holds.
MkLive(name, doc, bases, own, others) ==
  [name    |-> name,
   bases   |-> bases,
   own     |-> own,
   cmodule |-> [c \in ModuleClasses |-> name],
   members |-> WithAttrs(
                 [n \in ModuleClasses \cup {"__doc__", "__name__"} |->
                    IF n \in ModuleClasses THEN ClassObj(n)
                    ELSE IF n = "__name__" THEN ValueObj("str")
                    ELSE IF doc = None THEN NoneObj ELSE DocObj(doc)],
                 others)]

\* Every hierarchy of the module's classes that a sequence of class
\* statements builds: a class derives from object or from up to MaxBases
\* classes defined before it.
BaseLists(defined) ==
  {<<"object">>} \cup
  {s \in SeqsUpTo(defined, MaxBases) : Len(s) >= 1 /\ IsInjective(s)}

RECURSIVE Hierarchies(_)
Hierarchies(done) ==
  IF DOMAIN done = ModuleClasses THEN {done}
  ELSE UNION {Hierarchies((c :> s) @@ done) :
                c \in ModuleClasses \ DOMAIN done, s \in BaseLists(DOMAIN done)}

\* A fixed hierarchy: the bases of A, B and C, every other class deriving
\* from object.
Shape(a, b, c) ==
  [k \in ModuleClasses |->
     CASE k = "A" -> a [] k = "B" -> b [] k = "C" -> c [] OTHER -> <<"object">>]

Chain     == Shape(<<"object">>, <<"A">>, <<"B">>)
TwoBases  == Shape(<<"object">>, <<"object">>, <<"A", "B">>)
ForeignBase == Shape(<<"X">>, <<"A">>, <<"object">>)

PlainOwn == [c \in ModuleClasses |-> DefaultOwn(None)]

\* Routines: the signatures inspect.getargspec can report.
ParamNames == {<<"p", "q", "r", "s">>[i] : i \in 1..MaxParams}

Routine(args, vararg, kwarg, defaults, doc) ==
  RoutineObj(FALSE, args, vararg, kwarg, defaults, doc)

OpaqueRoutine == RoutineObj(TRUE, <<>>, None, None, <<>>, "d1")

ArgLists == {s \in SeqsUpTo(ParamNames, MaxParams) : IsInjective(s)}

\* The routines that differ from f(args) documented "d1" in at most one of
\* vararg, kwarg, defaults and documentation.
Routines ==
  {OpaqueRoutine} \cup
  UNION {{Routine(args, None, None, <<>>, "d1"),
          Routine(args, "args", None, <<>>, "d1"),
          Routine(args, None, "kwargs", <<>>, "d1"),
          Routine(args, None, None, <<>>, "d2"),
          Routine(args, None, None, <<>>, None)} \cup
         {Routine(args, None, None, <<d>>, "d1") : d \in IF args = <<>> THEN {} ELSE {"1", "2"}}
         : args \in ArgLists}

BaseRoutines ==
  {Absent,
   Routine(<<"p">>, None, None, <<>>, "d1"),
   Routine(<<"p", "q">>, None, None, <<>>, "d1"),
   Routine(<<"p">>, None, None, <<"1">>, "d1")}

Values == {Absent, NoneObj, ValueObj("int"), ValueObj("str"), ValueObj("X"), ValueObj("A")}

AliasTargets == {Absent} \cup {ClassObj(c) : c \in ModuleClasses \cup ForeignClasses}

\* Hierarchies and the discovery order of the classes.
InputsHierarchy ==
  {MkLive(GIMP, None, bases, PlainOwn, [n \in {"BMAX"} |-> ValueObj("int")]) :
     bases \in Hierarchies(<< >>)}

\* Classes found under a second name, with or without a plain value whose
\* name dir() lists between the names of the classes.
InputsAlias ==
  {MkLive(GIMP, None, bases, PlainOwn,
          [n \in {"Alias", "Balias", "BMAX"} |->
             IF n = "Alias" THEN alias ELSE IF n = "Balias" THEN balias ELSE bmax]) :
     bases \in {Shape(<<"object">>, <<"object">>, <<"object">>),
                Shape(<<"object">>, <<"A">>, <<"object">>),
                Shape(<<"B">>, <<"object">>, <<"object">>), Chain},
     alias \in AliasTargets, balias \in AliasTargets,
     bmax \in {Absent, ValueObj("int")}}

\* Methods of a base class and of a derived class.
InputsMethod ==
  {MkLive(GIMP, None, bases,
          [c \in ModuleClasses |->
             WithAttrs(DefaultOwn(None),
                       IF c = "A" THEN [n \in {"f", "x"} |-> IF n = "f" THEN fA ELSE ValueObj("int")]
                       ELSE IF c = "B" THEN [n \in {"f"} |-> fB]
                       ELSE << >>)],
          << >>) :
     bases \in {Chain, TwoBases, ForeignBase},
     fA \in BaseRoutines, fB \in Routines \cup {Absent}}

\* Methods of classes that are found under a second name.
InputsAliasMethod ==
  {MkLive(GIMP, None, Chain,
          [c \in ModuleClasses |->
             WithAttrs(DefaultOwn(None),
                       IF c = "A" THEN [n \in {"f"} |-> fA]
                       ELSE IF c = "B" THEN [n \in {"f"} |-> fB]
                       ELSE << >>)],
          [n \in {"Alias", "Balias"} |-> IF n = "Alias" THEN alias ELSE balias]) :
     fA \in BaseRoutines \ {Absent},
     fB \in {Routine(<<"p">>, None, None, <<>>, "d1"), Routine(<<"q">>, None, None, <<>>, "d1")},
     alias \in {Absent, ClassObj("A")}, balias \in {Absent, ClassObj("B")}}

\* Plain values of a base class and of a derived class.
InputsValue ==
  {MkLive(GIMP, None, bases,
          [c \in ModuleClasses |->
             WithAttrs(DefaultOwn(None),
                       IF c = "A" THEN [n \in {"a"} |-> aA]
                       ELSE IF c = "B" THEN [n \in {"a"} |-> aB]
                       ELSE << >>)],
          << >>) :
     bases \in {Chain, ForeignBase}, aA \in Values, aB \in Values}

\* Plain values of two base classes and of the class deriving from both,
\* which also holds a value of its own.
InputsTwoBases ==
  {MkLive(GIMP, None, TwoBases,
          [c \in ModuleClasses |->
             WithAttrs(DefaultOwn(None),
                       IF c = "A" THEN [n \in {"a"} |-> aA]
                       ELSE IF c = "B" THEN [n \in {"a"} |-> aB]
                       ELSE IF c = "C"
                       THEN [n \in {"a", "x"} |-> IF n = "a" THEN aC ELSE ValueObj("int")]
                       ELSE << >>)],
          << >>) :
     aA \in {Absent, ValueObj("int"), ValueObj("str")},
     aB \in {Absent, ValueObj("int"), ValueObj("str")},
     aC \in {Absent, ValueObj("int"), ValueObj("str")}}

\* Sub-modules, foreign bases, and classes and modules held by a class.
InputsImport ==
  {MkLive(GIMP, None, bases,
          [c \in ModuleClasses |->
             WithAttrs(DefaultOwn(None),
                       IF c = "A" THEN [n \in {"n"} |-> nA]
                       ELSE IF c = "C"
                       THEN [n \in {"a", "f", "x"} |->
                               IF n = "f" THEN fC ELSE ValueObj("int")]
                       ELSE << >>)],
          [n \in {"sub", "func"} |-> IF n = "sub" THEN sub ELSE func]) :
     bases \in {Shape(<<"object">>, <<"object">>, <<"object">>),
                Shape(<<"X">>, <<"X">>, <<"X">>),
                Shape(<<"X">>, <<"A">>, <<"object">>)},
     nA \in {Absent, ModuleObj(EXT), ClassObj("X"), ClassObj("C"), ClassObj("A")},
     sub \in {Absent, ModuleObj(GIMP \o <<N("sub")>>), ModuleObj(EXT)},
     func \in {Absent, OpaqueRoutine},
     fC \in {Routine(<<"p">>, None, None, <<>>, "d1"), OpaqueRoutine}}

\* Documentation of the module and of its classes, one of which may hold a
\* documented method.
InputsDoc ==
  {MkLive(name, moddoc, Chain,
          [c \in ModuleClasses |->
             IF c = "A" THEN DefaultOwn(docA)
             ELSE IF c = "B" THEN WithAttrs(DefaultOwn(docB), [n \in {"f"} |-> fB])
             ELSE DefaultOwn(None)],
          << >>) :
     name \in {GIMP, PANGO}, moddoc \in {None, "dm"},
     docA \in {None, "d1"}, docB \in {None, "d1", "d2", ""},
     fB \in {Absent, Routine(<<"p">>, None, None, <<>>, "d1")}}

\* A module whose name is the name of the foreign module with "_" before
\* it ("_ext"), or has it as internal component ("ext._ext"), and whose
\* classes derive from the foreign class, or from the class Lost, for which
\* inspect.getmodule finds no module.
InputsPrivate ==
  {MkLive(name, None, bases, PlainOwn, << >>) :
     name \in {<<U("ext")>>, <<N("ext"), U("ext")>>},
     bases \in {ForeignBase, Shape(<<"X">>, <<"X">>, <<"X">>),
                Shape(<<"Lost">>, <<"A">>, <<"object">>)}}

Inputs ==
  {L \in InputsHierarchy \cup InputsAlias \cup InputsMethod \cup InputsAliasMethod
           \cup InputsValue \cup InputsTwoBases
           \cup InputsImport \cup InputsDoc \cup InputsPrivate : ValidHierarchy(L)}

\* pypredefgen.module_specific_processing_functions: empty when the module
\* is loaded, filled by generate_predefined_completions_for_pydev.
MODULES_FOR_WHICH_TO_IGNORE_DOCSTRINGS ==
  {<<U("gimpui")>>, <<N("gtk"), U("gtk")>>, <<N("gtk"), N("gdk")>>,
   <<N("gobject"), U("gobject")>>, <<N("cairo"), U("cairo")>>, PANGO,
   <<N("pangocairo")>>, <<N("atk")>>, <<N("glib"), U("glib")>>, <<N("gio"), U("gio")>>}

ProcessingTables ==
  {<< >>,
   [m \in MODULES_FOR_WHICH_TO_IGNORE_DOCSTRINGS |-> <<"remove_class_docstrings">>]}

-----------------------------------------------------------------------------
(* generate_predefined_completions and process_ast_nodes, one action per   *)
(* statement.                                                              *)

PipelineOrder ==
  <<"insert_ast_nodes", "insert_ast_docstring",
    "remove_redundant_members_from_subclasses", "sort_classes_by_hierarchy",
    "remove_duplicate_imports", "move_top_level_variables_to_end",
    "move_class_level_variables_before_methods", "module_specific_processing_functions",
    "fix_empty_class_bodies", "write_pypredef_file">>

module_element == Element(ModuleObj(live.name), None, live.name)

ModuleId == NodeId(<<>>, "member", <<>>)

Init ==
  /\ live \in Inputs
  /\ module_specific_processing_functions \in ProcessingTables
  /\ pc = "insert_ast_nodes"
  /\ module_node = [body |-> <<>>]
  /\ node_element_map = << >>
  /\ steps = <<>>
  /\ prev_body = <<>>
  /\ gimp_progress = NoneObj
  /\ plugin = NoneObj
  /\ calls = <<>>
  /\ call = NoneObj
  /\ pypredef_files = << >>

\* A statement was entered and has ended: the history, and the statement to
\* run next or the exception the statement raised.
Entered(step, next) ==
  /\ pc = step
  /\ steps' = Append(steps, step)
  /\ prev_body' = module_node.body
  /\ pc' = next
  /\ UNCHANGED <<live, module_specific_processing_functions, gimp_progress, plugin, calls,
                 call>>

\* A statement that writes no file.
Ran(step, next) ==
  /\ Entered(step, next)
  /\ UNCHANGED pypredef_files

\* module_node = get_ast_node_for_module(module); module_element = Element(...);
\* insert_ast_nodes(module_element)
InsertAstNodes ==
  LET walked == insert_ast_nodes(live, module_element, <<>>, <<>>,
                  [body |-> <<>>, reg |-> (ModuleId :> module_element) @@ node_element_map,
                   error |-> FALSE])
  IN  /\ Ran("insert_ast_nodes", IF walked.error THEN "RuntimeError" ELSE "insert_ast_docstring")
      /\ module_node' = [body |-> walked.body]
      /\ node_element_map' = walked.reg

InsertAstDocstring ==
  /\ Ran("insert_ast_docstring", "remove_redundant_members_from_subclasses")
  /\ module_node' = [body |-> insert_ast_docstring(live, module_element.object,
                                [id |-> ModuleId, body |-> module_node.body]).body]
  /\ UNCHANGED node_element_map

\* The pass has ended, done being what it left: at its end, or at the
\* KeyError it raised.
Eliminate(done) ==
  /\ Ran("remove_redundant_members_from_subclasses",
         IF done.error THEN "KeyError" ELSE "sort_classes_by_hierarchy")
  /\ module_node' = [body |-> done.body]
  /\ node_element_map' = done.reg

RemoveRedundantMembersFromSubclasses ==
  Eliminate(remove_redundant_members_from_subclasses(
              live, node_element_map, module_element.module, module_node.body))

SortClassesByHierarchy ==
  /\ Ran("sort_classes_by_hierarchy", "remove_duplicate_imports")
  /\ module_node' = [body |-> sort_classes_by_hierarchy(
                                live, node_element_map, module_element.module, module_node.body)]
  /\ UNCHANGED node_element_map

RemoveDuplicateImports ==
  /\ Ran("remove_duplicate_imports", "move_top_level_variables_to_end")
  /\ module_node' = [body |-> remove_duplicate_imports(module_node.body)]
  /\ UNCHANGED node_element_map

MoveTopLevelVariablesToEnd ==
  /\ Ran("move_top_level_variables_to_end", "move_class_level_variables_before_methods")
  /\ module_node' = [body |-> move_top_level_variables_to_end(module_node.body)]
  /\ UNCHANGED node_element_map

MoveClassLevelVariablesBeforeMethods ==
  /\ Ran("move_class_level_variables_before_methods", "module_specific_processing_functions")
  /\ module_node' = [body |-> move_class_level_variables_before_methods(module_node.body)]
  /\ UNCHANGED node_element_map

\* processing_function(module_element), for a name of the table: a function
\* of pypredefgen that takes the element of the module.
apply_processing_function(L, processing_function, body) ==
  IF processing_function = "remove_class_docstrings" THEN remove_class_docstrings(body)
  ELSE IF processing_function = "fix_empty_class_bodies" THEN fix_empty_class_bodies(body)
  ELSE IF processing_function = "insert_ast_docstring"
  THEN insert_ast_docstring(L, ModuleObj(L.name), [id |-> ModuleId, body |-> body]).body
  ELSE body

\* for processing_function in processing_functions, from the last function
\* to the first.
RECURSIVE apply_processing_functions_in_reverse(_, _, _)
apply_processing_functions_in_reverse(L, processing_functions, body) ==
  IF processing_functions = <<>> THEN body
  ELSE apply_processing_function(L, Head(processing_functions),
         apply_processing_functions_in_reverse(L, Tail(processing_functions), body))

\* for processing_function in processing_functions: processing_function(module_element)
RECURSIVE apply_processing_functions(_, _, _)
apply_processing_functions(L, processing_functions, body) ==
  IF processing_functions = <<>> THEN body
  ELSE apply_processing_functions(L, Tail(processing_functions),
         apply_processing_function(L, Head(processing_functions), body))

ModuleSpecificProcessing ==
  /\ Ran("module_specific_processing_functions", "fix_empty_class_bodies")
  /\ module_node' =
       [body |-> IF module_element.module \in DOMAIN module_specific_processing_functions
                 THEN apply_processing_functions(
                        live, module_specific_processing_functions[module_element.module],
                        module_node.body)
                 ELSE module_node.body]
  /\ UNCHANGED node_element_map

FixEmptyClassBodies ==
  /\ Ran("fix_empty_class_bodies", "write_pypredef_file")
  /\ module_node' = [body |-> fix_empty_class_bodies(module_node.body)]
  /\ UNCHANGED node_element_map

\* write_pypredef_file: the source of the tree is written over the file of
\* the name, or io.open raises IOError (PYPREDEF_FILES_DIR is missing, the
\* file cannot be written) and no file is written.
write_pypredef_file(files, filename, node, opened) ==
  IF opened THEN [files |-> (filename :> node.body) @@ files, raised |-> None]
  ELSE [files |-> files, raised |-> "IOError"]

\* write_pypredef_file(module_element), the file being named by the module.
WritePypredefFile ==
  \E opened \in BOOLEAN :
    LET written == write_pypredef_file(pypredef_files, live.name, module_node, opened)
    IN  /\ Entered("write_pypredef_file",
                   IF written.raised = None THEN "done" ELSE written.raised)
        /\ pypredef_files' = written.files
        /\ UNCHANGED <<module_node, node_element_map>>

Next ==
  \/ InsertAstNodes
  \/ InsertAstDocstring
  \/ RemoveRedundantMembersFromSubclasses
  \/ SortClassesByHierarchy
  \/ RemoveDuplicateImports
  \/ MoveTopLevelVariablesToEnd
  \/ MoveClassLevelVariablesBeforeMethods
  \/ ModuleSpecificProcessing
  \/ FixEmptyClassBodies
  \/ WritePypredefFile

Spec == Init /\ [][Next]_vars

-----------------------------------------------------------------------------
(* The pipeline run after earlier runs of the same process, which have     *)
(* left their nodes and elements in Element.node_element_map.              *)

\* process_ast_nodes(module_element) past the redundancy eliminator, done
\* being what the eliminator left.
process_ast_nodes_after_eliminator(L, module, processing_functions, done) ==
  IF done.error THEN [body |-> done.body, reg |-> done.reg, raised |-> "KeyError"]
  ELSE [body |->
          fix_empty_class_bodies(
            apply_processing_functions(
              L, IF module \in DOMAIN processing_functions
              THEN processing_functions[module] ELSE <<>>,
              move_class_level_variables_before_methods(
                move_top_level_variables_to_end(
                  remove_duplicate_imports(
                    sort_classes_by_hierarchy(L, done.reg, module, done.body)))))),
        reg |-> done.reg, raised |-> None]

\* insert_ast_docstring(module_element); process_ast_nodes(module_element),
\* walked being what insert_ast_nodes left.
generate_after_walk(L, element, processing_functions, walked) ==
  IF walked.error THEN [body |-> walked.body, reg |-> walked.reg, raised |-> "RuntimeError"]
  ELSE process_ast_nodes_after_eliminator(
         L, element.module, processing_functions,
         remove_redundant_members_from_subclasses(
           L, walked.reg, element.module,
           insert_ast_docstring(L, element.object,
                                [id |-> ModuleId, body |-> walked.body]).body))

\* write_pypredef_file(module_element), processed being what
\* process_ast_nodes left.
generate_after_processing(L, processed, opened) ==
  IF processed.raised # None THEN processed
  ELSE [processed EXCEPT
          !.raised = write_pypredef_file(<< >>, L.name, processed, opened).raised]

\* generate_predefined_completions(module) as one function: the tree it
\* builds, the registry it leaves and the exception it ends with, when the
\* registry holds reg at its start and io.open opens the file or not.
generate_predefined_completions(L, reg, processing_functions, opened) ==
  generate_after_processing(
    L,
    generate_after_walk(
      L, Element(ModuleObj(L.name), None, L.name), processing_functions,
      insert_ast_nodes(L, Element(ModuleObj(L.name), None, L.name), <<>>, <<>>,
                       [body |-> <<>>,
                        reg |-> (ModuleId :> Element(ModuleObj(L.name), None, L.name)) @@ reg,
                        error |-> FALSE])),
    opened)

\* The registry an earlier run over the namespace L has left.
RegistryLeftBy(L, processing_functions) ==
  LET reg == generate_predefined_completions(L, << >>, processing_functions, TRUE).reg IN
  [id \in {EarlierNode(i) : i \in DOMAIN reg} |->
     reg[CHOOSE i \in DOMAIN reg : EarlierNode(i) = id]]

\* Other namespaces an earlier run may have processed: a module of the
\* same name whose names Alias and Balias are bound the other way round, and
\* the module pango.
EarlierNamespaces ==
  {MkLive(GIMP, None, Chain, PlainOwn,
          [n \in {"Alias", "Balias"} |-> IF n = "Alias" THEN ClassObj("B") ELSE ClassObj("A")]),
   MkLive(PANGO, "dm", ForeignBase, PlainOwn, [n \in {"BMAX"} |-> ValueObj("int")])}

InputsHistory == {L \in InputsAlias \cup InputsImport \cup InputsDoc : ValidHierarchy(L)}

InitHistory ==
  /\ live \in InputsHistory
  /\ module_specific_processing_functions \in ProcessingTables
  /\ pc = "insert_ast_nodes"
  /\ module_node = [body |-> <<>>]
  /\ node_element_map \in
       {<< >>, RegistryLeftBy(live, module_specific_processing_functions)}
         \cup {RegistryLeftBy(L, module_specific_processing_functions) : L \in EarlierNamespaces}
  /\ steps = <<>>
  /\ prev_body = <<>>
  /\ gimp_progress = NoneObj
  /\ plugin = NoneObj
  /\ calls = <<>>
  /\ call = NoneObj
  /\ pypredef_files = << >>

SpecHistory == InitHistory /\ [][Next]_vars

-----------------------------------------------------------------------------
(* The GIMP procedural database, src/pypredefgen_pdb.py.                   *)

\* gimp.pdb.  Its element has the object itself as module; the registry
\* files its nodes under it, named here as a module is.
PdbObj == [kind |-> "pdb"]
GIMP_PDB == <<N("gimp"), N("pdb")>>

\* A name of the PDB: words joined by "-" ("run-mode") or by "_".
PdbName(words, sep) == [words |-> words, sep |-> sep]

pythonize_string(str_) == [str_ EXCEPT !.sep = "_"]

unpythonize_string(str_) == [str_ EXCEPT !.sep = "-"]

\* A description of a parameter: its text, and what it ends with: nothing,
\* "(TRUE or FALSE)", "?" or an enumeration "{ NAME (0), ... }" of names.
Description(text, tail) == [text |-> text, tail |-> tail]
NoTail       == [kind |-> "none"]
TrueOrFalse  == [kind |-> "(TRUE or FALSE)"]
QuestionMark == [kind |-> "?"]
Enumeration(names) == [kind |-> "enumeration", names |-> names]

\* A PDB function as PyGimp shows it: params and return_vals are tuples
\* (type id, name, description).
PdbFunctionObj(proc_name, proc_blurb, proc_help, params, return_vals, doc) ==
  [kind |-> "pdbfunction", proc_name |-> proc_name, proc_blurb |-> proc_blurb,
   proc_help |-> proc_help, params |-> params, return_vals |-> return_vals, doc |-> doc]

PdbParamInfo(pdb_type_id, name, description) ==
  [pdb_type_id |-> pdb_type_id, name |-> name, description |-> description]

PdbType(type_id, type_, base_type) ==
  [type_id |-> type_id, type_ |-> type_, base_type |-> base_type]

\* _PDB_TYPES_MAP, for the types the modelled functions use.
PDB_TYPES_MAP ==
  [type_id \in {"PDB_INT32", "PDB_STRING", "PDB_INT32ARRAY", "PDB_IMAGE"} |->
     CASE type_id = "PDB_INT32"      -> PdbType(type_id, "int", None)
       [] type_id = "PDB_STRING"     -> PdbType(type_id, "str", None)
       [] type_id = "PDB_INT32ARRAY" -> PdbType(type_id, "tuple", "int")
       [] type_id = "PDB_IMAGE"      -> PdbType(type_id, "Image", None)]

\* PdbType.get_name: "{0}({1})" with the base type, the name of the type
\* without it (base is NoModule then).
get_name(L, pdb_type, include_base_type) ==
  [type |-> get_full_type_name(L, pdb_type.type_, NoModule),
   base |-> IF include_base_type /\ pdb_type.base_type # None
            THEN get_full_type_name(L, pdb_type.base_type, NoModule)
            ELSE NoModule]

\* PdbParam.__init__
PdbParam(pdb_type_id, name, description) ==
  [pdb_type_id |-> pdb_type_id, orig_name |-> name, description |-> description,
   pdb_type |-> PDB_TYPES_MAP[pdb_type_id], name |-> pythonize_string(name)]

get_pdb_params(pdb_function_params) ==
  [i \in 1..Len(pdb_function_params) |->
     PdbParam(pdb_function_params[i].pdb_type_id, pdb_function_params[i].name,
              pdb_function_params[i].description)]

RUN_MODE == PdbName(<<"run", "mode">>, "_")

\* _get_run_mode_param_index: 0-based, -1 for None (no such parameter).
get_run_mode_param_index(pdb_params) ==
  LET at == SelectSeq([i \in 1..Len(pdb_params) |-> i - 1],
                      LAMBDA i : pdb_params[i + 1].name = RUN_MODE)
  IN  IF at = <<>> THEN -1 ELSE at[1]

\* get_pdb_params_with_fixed_run_mode with _move_run_mode_param_to_end
get_pdb_params_with_fixed_run_mode(pdb_function_params) ==
  LET pdb_params == get_pdb_params(pdb_function_params)
      run_mode_param_index == get_run_mode_param_index(pdb_params)
  IN  IF run_mode_param_index # -1
      THEN [pdb_params |-> Append(ListDel(pdb_params, run_mode_param_index),
                                  pdb_params[run_mode_param_index + 1]),
            has_run_mode_param |-> TRUE]
      ELSE [pdb_params |-> pdb_params, has_run_mode_param |-> FALSE]

DEFAULT_RUN_MODE_NAME == "gimpenums.RUN_NONINTERACTIVE"

get_ast_arguments_for_pdb_function(pdb_function) ==
  LET fixed == get_pdb_params_with_fixed_run_mode(pdb_function.params) IN
  [args |-> [i \in 1..Len(fixed.pdb_params) |-> fixed.pdb_params[i].name],
   vararg |-> None, kwarg |-> None,
   defaults |-> IF fixed.has_run_mode_param THEN <<DEFAULT_RUN_MODE_NAME>> ELSE <<>>]

get_ast_return_value_types_for_pdb_function(L, id, pdb_function) ==
  LET type_name(return_vals_info) ==
        get_name(L, PDB_TYPES_MAP[return_vals_info.pdb_type_id], FALSE)
  IN  [kind |-> "Return", id |-> id,
       value |->
         IF Len(pdb_function.return_vals) > 1
         THEN [tag |-> "Tuple",
               elts |-> [i \in 1..Len(pdb_function.return_vals) |->
                           type_name(pdb_function.return_vals[i])]]
         ELSE IF Len(pdb_function.return_vals) = 1
         THEN [tag |-> "Name", id |-> type_name(pdb_function.return_vals[1])]
         ELSE [tag |-> "Name", id |-> <<N("None")>>]]

\* _PdbParamIntToBoolConverter.convert: an int parameter whose description
\* tells of true and false, or ends with "?", is a bool; a "(TRUE or FALSE)"
\* at the end of the description is deleted.
PdbParamIntToBoolConverter_convert(pdb_param) ==
  IF /\ pdb_param.pdb_type.type_ = "int"
     /\ pdb_param.description.tail \in {TrueOrFalse, QuestionMark}
  THEN [pdb_param EXCEPT
          !.pdb_type = PdbType(pdb_param.pdb_type.type_, "bool", None),
          !.description.tail = IF @ = TrueOrFalse THEN NoTail ELSE @]
  ELSE pdb_param

\* The names of dir(gimpenums) that _get_gimpenums_names_map keeps.
GimpenumsNames ==
  {PdbName(<<"RUN", "INTERACTIVE">>, "_"), PdbName(<<"RUN", "NONINTERACTIVE">>, "_")}

\* _GimpenumsNamePythonizer.pythonize: a name of gimpenums in the
\* enumeration at the end of the description becomes gimpenums.NAME.
GimpenumsNamePythonizer_pythonize(pdb_param) ==
  IF pdb_param.description.tail.kind = "enumeration"
  THEN [pdb_param EXCEPT
          !.description.tail.names =
            [i \in 1..Len(@) |->
               IF pythonize_string(@[i]) \in GimpenumsNames /\ @[i] = unpythonize_string(@[i])
               THEN [module |-> "gimpenums", name |-> pythonize_string(@[i])]
               ELSE @[i]]]
  ELSE pdb_param

\* _pythonize_true_false_names, on a description of the docstring.
pythonize_true_false_names(description) ==
  IF description.tail = TrueOrFalse
  THEN [description EXCEPT !.tail = [kind |-> "(True or False)"]]
  ELSE description

\* _get_pdb_param_docstring: "{0} ({1}): {2}"
get_pdb_param_docstring(L, pdb_param) ==
  [name |-> pdb_param.name, type |-> get_name(L, pdb_param.pdb_type, TRUE),
   description |-> pdb_param.description]

\* _get_pdb_docstring_for_params, the callbacks applied to each parameter
\* in their order; bool tells whether _PdbParamIntToBoolConverter is among
\* them.  (_PdbParamNamePythonizer.pythonize_param changes a description
\* that ends with a name of a parameter in parentheses: none does here.)
get_pdb_docstring_for_params(L, pdb_params, bool) ==
  [i \in 1..Len(pdb_params) |->
     get_pdb_param_docstring(
       L, GimpenumsNamePythonizer_pythonize(
            IF bool THEN PdbParamIntToBoolConverter_convert(pdb_params[i])
            ELSE pdb_params[i]))]

\* _get_ast_docstring_for_pdb_function: the parts of the text in their
\* order, a part that is left out being empty.
get_ast_docstring_for_pdb_function(L, id, pdb_function) ==
  LET parameters == get_pdb_docstring_for_params(
                      L, get_pdb_params_with_fixed_run_mode(pdb_function.params).pdb_params,
                      TRUE)
      returns == get_pdb_docstring_for_params(
                   L, get_pdb_params(pdb_function.return_vals), FALSE)
      processed(lines) ==
        [i \in 1..Len(lines) |->
           [lines[i] EXCEPT !.description = pythonize_true_false_names(@)]]
  IN  [kind |-> "Expr", id |-> id,
       s |-> [blurb |-> IF Truthy(pdb_function.proc_blurb)
                        THEN pdb_function.proc_blurb ELSE "",
              help |-> IF /\ Truthy(pdb_function.proc_help)
                          /\ pdb_function.proc_help # pdb_function.proc_blurb
                       THEN pdb_function.proc_help ELSE "",
              parameters |-> processed(parameters),
              returns |-> processed(returns)]]

get_ast_node_for_pdb_function(L, id, pdb_function) ==
  [kind |-> "FunctionDef", id |-> id, name |-> pdb_function.proc_name,
   args |-> get_ast_arguments_for_pdb_function(pdb_function),
   body |-> <<get_ast_docstring_for_pdb_function(
                L, NodeId(id.path, "doc", <<>>), pdb_function),
              get_ast_return_value_types_for_pdb_function(
                L, NodeId(id.path, "return", <<>>), pdb_function)>>]

is_element_pdb_function(element) == ClassOf(element.object) = "PDBFunction"

\* element.name_from_dir.startswith("temp_procedure_")
is_element_generated_temporary_pdb_function(element) ==
  element.name_from_dir \in {"temp_procedure_1"}

\* _insert_ast_node_for_pdb_function: the node is appended, and
\* insert_ast_docstring(pdb_function_element) finds no node in the element,
\* which was made without one: for a documented object it raises
\* AttributeError.
insert_ast_node_for_pdb_function(L, pdb_function_element, acc) ==
  LET pdb_function_node ==
        get_ast_node_for_pdb_function(
          L, NodeId(<<pdb_function_element.name_from_dir>>, "member", <<>>),
          pdb_function_element.object)
  IN  [acc EXCEPT
         !.body = Append(@, pdb_function_node),
         !.raised = IF Truthy(inspect_getdoc(L, pdb_function_element.object))
                    THEN "AttributeError" ELSE @]

\* for child_member_name in dir(gimp.pdb): ...  acc is [body, reg, error,
\* raised]: the walker's, and the exception the loop ended in.
\* One round of the loop, child_element being the Element it makes.
insert_pdb_member(L, child_element, pdb_element, acc) ==
  IF is_element_pdb_function(child_element)
  THEN IF is_element_generated_temporary_pdb_function(child_element)
       THEN acc
       ELSE insert_ast_node_for_pdb_function(L, child_element, acc)
  ELSE insert_ast_node(L, child_element.name_from_dir, pdb_element, GIMP, <<>>, <<>>, acc)

\* Element.node raising RuntimeError in the walker ends the loop.
raised_in_walk(inserted) ==
  IF inserted.error THEN [inserted EXCEPT !.raised = "RuntimeError"] ELSE inserted

RECURSIVE insert_pdb_members(_, _, _, _)
insert_pdb_members(L, names, pdb_element, acc) ==
  IF names = <<>> \/ acc.raised # None THEN acc
  ELSE insert_pdb_members(
         L, Tail(names), pdb_element,
         raised_in_walk(
           insert_pdb_member(
             L,
             Element(Getattr(L, pdb_element.object, Head(names)), Head(names),
                     pdb_element.module),
             pdb_element, acc)))

\* insert_ast_docstring(pdb_element); write_pypredef_file(pdb_element,
\* filename="gimp.pdb"), inserted being what the loop left.
generate_for_gimp_pdb_after_members(L, inserted, files, opened) ==
  IF inserted.raised # None
  THEN [body |-> inserted.body, reg |-> inserted.reg, files |-> files,
        raised |-> inserted.raised]
  ELSE LET node == insert_ast_docstring(L, PdbObj, [id |-> ModuleId, body |-> inserted.body])
           written == write_pypredef_file(files, GIMP_PDB, node, opened)
       IN  [body |-> node.body, reg |-> inserted.reg, files |-> written.files,
            raised |-> written.raised]

\* generate_predefined_completions_for_gimp_pdb() as one function: the tree
\* it builds, the registry and the files it leaves and the exception it
\* ends with, when the registry holds reg at its start.
generate_predefined_completions_for_gimp_pdb(L, reg, files, opened) ==
  generate_for_gimp_pdb_after_members(
    L,
    insert_pdb_members(
      L, Dir(L, PdbObj), Element(PdbObj, "pdb", GIMP_PDB),
      [body |-> <<>>, reg |-> (ModuleId :> Element(PdbObj, "pdb", GIMP_PDB)) @@ reg,
       error |-> FALSE, raised |-> None]),
    files, opened)

\* The gimp.pdb of a process: its members, and the class gimp.Image that
\* the PDB type PDB_IMAGE stands for.
PdbLive(members) ==
  [name    |-> GIMP_PDB,
   bases   |-> [c \in {"Image"} |-> <<"object">>],
   own     |-> [c \in {"Image"} |-> DefaultOwn(None)],
   cmodule |-> [c \in {"Image"} |-> GIMP],
   members |-> WithAttrs([n \in {"__class__"} |-> ClassObj("pdb")], members)]

ImageParam == PdbParamInfo("PDB_IMAGE", PdbName(<<"image">>, "_"), Description("d1", NoTail))

RunModeParam ==
  PdbParamInfo("PDB_INT32", PdbName(<<"run", "mode">>, "-"),
               Description("d1", Enumeration(<<PdbName(<<"RUN", "INTERACTIVE">>, "-"),
                                               PdbName(<<"RUN", "NONINTERACTIVE">>, "-"),
                                               PdbName(<<"RUN", "OTHER">>, "-")>>)))

FlagParam(tail) == PdbParamInfo("PDB_INT32", PdbName(<<"non", "empty">>, "-"),
                                Description("d2", tail))

\* The PDB functions gimp.pdb holds under the name gimp_edit_copy.
EditCopyFunctions ==
  {PdbFunctionObj(PdbName(<<"gimp", "edit", "copy">>, "-"), blurb, help, params,
                  return_vals, doc) :
     blurb \in {"", "b"}, help \in {"", "b", "h"},
     params \in {<<>>, <<ImageParam>>, <<ImageParam, FlagParam(TrueOrFalse)>>},
     return_vals \in {<<>>, <<FlagParam(TrueOrFalse)>>, <<FlagParam(QuestionMark)>>,
                      <<PdbParamInfo("PDB_INT32", PdbName(<<"num", "ids">>, "-"),
                                     Description("d1", NoTail)),
                        PdbParamInfo("PDB_INT32ARRAY", PdbName(<<"ids">>, "_"),
                                     Description("d2", NoTail))>>},
     doc \in {None, "df"}}

\* The PDB functions gimp.pdb holds under the name plug_in_blur.
BlurFunctions ==
  {PdbFunctionObj(PdbName(<<"plug", "in", "blur">>, "-"), "b", "h", params, <<>>, None) :
     params \in {<<RunModeParam, ImageParam>>,
                 <<ImageParam, RunModeParam, FlagParam(QuestionMark)>>,
                 <<PdbParamInfo("PDB_STRING", PdbName(<<"name">>, "_"),
                                Description("d1", TrueOrFalse))>>}}

InputsPdb ==
  {PdbLive([n \in {"__doc__", "gimp_edit_copy", "plug_in_blur", "query",
                   "temp_procedure_1"} |->
              CASE n = "__doc__" -> doc
                [] n = "gimp_edit_copy" -> edit_copy
                [] n = "plug_in_blur" -> blur
                [] n = "query" -> query
                [] n = "temp_procedure_1" -> temp_procedure]) :
     doc \in {NoneObj, DocObj("dp")},
     edit_copy \in EditCopyFunctions,
     blur \in BlurFunctions \cup {Absent},
     query \in {Absent, OpaqueRoutine},
     temp_procedure \in {Absent,
                         PdbFunctionObj(PdbName(<<"temp", "procedure", "1">>, "-"),
                                        "b", "", <<>>, <<>>, "df")}}

\* A caller calls generate_predefined_completions_for_gimp_pdb().
GeneratePredefinedCompletionsForGimpPdb ==
  /\ pc = "generate_predefined_completions_for_gimp_pdb"
  /\ \E opened \in BOOLEAN :
       \E generated \in {generate_predefined_completions_for_gimp_pdb(
                           live, node_element_map, pypredef_files, opened)} :
        /\ Entered("generate_predefined_completions_for_gimp_pdb",
                   IF generated.raised = None THEN "done" ELSE generated.raised)
        /\ module_node' = [body |-> generated.body]
        /\ node_element_map' = generated.reg
        /\ pypredef_files' = generated.files

-----------------------------------------------------------------------------
(* The GIMP plug-in, src/pypredefgen_gimp.py: the progress object and      *)
(* generate_predefined_completions_for_pydev.                              *)

\* GimpProgress.__init__
GimpProgress(num_total_tasks) ==
  [num_total_tasks |-> num_total_tasks, num_finished_tasks |-> 0]

\* GimpProgress.update: the object after the call and the exception the call
\* raised (None when it returned).  The division is a true division of two
\* integers, which raises ZeroDivisionError for a total of 0.
update(self, num_tasks) ==
  IF self.num_finished_tasks + num_tasks > self.num_total_tasks
  THEN [self |-> self, raised |-> "ValueError"]
  ELSE [self |-> [self EXCEPT !.num_finished_tasks = @ + num_tasks],
        raised |-> IF self.num_total_tasks = 0 THEN "ZeroDivisionError" ELSE None]

\* The entry of the history for a call of update.
UpdateCall(self, num_tasks) ==
  [num_tasks |-> num_tasks, before |-> self.num_finished_tasks,
   after |-> update(self, num_tasks).self.num_finished_tasks,
   raised |-> update(self, num_tasks).raised]

\* _get_num_progress_items
get_num_progress_items(generate_for_modules, module_names, generate_for_pdb) ==
  (IF generate_for_modules THEN Len(module_names) ELSE 0)
    + (IF generate_for_pdb THEN 1 ELSE 0)

\* _get_module_names: the lines of the modules file, no names when
\* os.path.isfile finds no such file.
get_module_names(modules_file) ==
  IF modules_file.isfile THEN modules_file.lines ELSE <<>>

\* A call of a function that declares num_parameters parameters, none with a
\* default, with num_arguments positional arguments.
RaisesTypeError(num_parameters, num_arguments) == num_parameters # num_arguments

\* The contents of the modules file.
ModulesFiles ==
  {[isfile |-> FALSE, lines |-> <<>>]} \cup
  {[isfile |-> TRUE, lines |-> lines] : lines \in SeqsUpTo({GIMP, PANGO}, MaxModules)}

\* The interpreter of GIMP the plug-in runs in: the modules that
\* importlib.import_module finds, and gimp.pdb.
GimpInterpreter ==
  [kind |-> "interpreter",
   modules |-> [module_name \in {GIMP, PANGO} |->
                  IF module_name = GIMP
                  THEN MkLive(GIMP, None, Chain, PlainOwn, << >>)
                  ELSE MkLive(PANGO, "dm", ForeignBase, PlainOwn,
                              [n \in {"BMAX"} |-> ValueObj("int")])],
   pdb |-> PdbLive([n \in {"__doc__", "gimp_edit_copy", "query"} |->
                      CASE n = "__doc__" -> NoneObj
                        [] n = "gimp_edit_copy" ->
                             PdbFunctionObj(PdbName(<<"gimp", "edit", "copy">>, "-"), "b", "h",
                                            <<ImageParam>>, <<FlagParam(TrueOrFalse)>>, None)
                        [] n = "query" -> OpaqueRoutine])]

\* The parameters GIMP calls the registered procedure with.
PluginRuns(modules_files) ==
  [generate_for_modules : BOOLEAN, generate_for_pdb : BOOLEAN,
   modules_file : modules_files, module_names : {<<>>}, i : {0}]

\* The states the plug-in starts in: a client that made a GimpProgress and
\* calls its update, or GIMP calling the registered procedure.
InitPlugin ==
  /\ module_node = [body |-> <<>>]
  /\ node_element_map = << >>
  /\ module_specific_processing_functions = << >>
  /\ steps = <<>>
  /\ prev_body = <<>>
  /\ calls = <<>>
  /\ call = NoneObj
  /\ pypredef_files = << >>
  /\ \/ /\ pc = "client"
        /\ live = NoneObj
        /\ plugin = NoneObj
        /\ gimp_progress \in {GimpProgress(n) : n \in 0..MaxTotalTasks}
     \/ /\ pc = "generate_predefined_completions_for_pydev"
        /\ live = GimpInterpreter
        /\ gimp_progress = NoneObj
        /\ plugin \in PluginRuns(ModulesFiles)

\* A client calls gimp_progress.update(num_tasks), and goes on after an
\* exception.
ClientUpdate ==
  /\ pc = "client"
  /\ Len(calls) < MaxCalls
  /\ \E num_tasks \in -1..2 :
       /\ gimp_progress' = update(gimp_progress, num_tasks).self
       /\ calls' = Append(calls, UpdateCall(gimp_progress, num_tasks))
  /\ UNCHANGED <<live, pc, module_node, node_element_map,
                 module_specific_processing_functions, steps, prev_body, plugin, call,
                 pypredef_files>>

\* gimp_progress.update() in the plug-in: an exception ends the run.
PluginUpdate(next) ==
  /\ gimp_progress' = update(gimp_progress, 1).self
  /\ calls' = Append(calls, UpdateCall(gimp_progress, 1))
  /\ pc' = IF update(gimp_progress, 1).raised # None THEN update(gimp_progress, 1).raised
           ELSE next

\* module_names = ...; gimp_progress = GimpProgress(...); gimp_progress.initialize()
MakeGimpProgress ==
  /\ pc = "generate_predefined_completions_for_pydev"
  /\ LET module_names == IF plugin.generate_for_modules
                         THEN get_module_names(plugin.modules_file) ELSE <<>>
     IN  /\ plugin' = [plugin EXCEPT !.module_names = module_names]
         /\ gimp_progress' = GimpProgress(get_num_progress_items(
                               plugin.generate_for_modules, module_names,
                               plugin.generate_for_pdb))
  /\ pc' = IF plugin.generate_for_modules THEN "module_specific_processing_functions.update"
           ELSE "generate_for_pdb"
  /\ UNCHANGED <<live, module_node, node_element_map,
                 module_specific_processing_functions, steps, prev_body, calls, call,
                 pypredef_files>>

\* What os.makedirs(path) and os.path.isdir(path) find at the path: errno
\* is that of the OSError of os.makedirs, None when it makes the directory.
MakedirsOutcomes ==
  {[errno |-> None, isdir |-> TRUE]}
    \cup {[errno |-> errno, isdir |-> isdir] :
            errno \in {"EEXIST", "EACCES", "ENOTDIR"}, isdir \in BOOLEAN}

\* _make_dirs(path): the exception it ends in, None when it returns.  The
\* OSError of os.makedirs is passed over for a path that is a directory and
\* errno EEXIST or EACCES, and raised again otherwise.
make_dirs(found) ==
  IF found.errno = None THEN None
  ELSE IF found.errno = "EEXIST" /\ found.isdir THEN None
  ELSE IF found.errno = "EACCES" /\ found.isdir THEN None
  ELSE "OSError"

\* _make_dirs(...); pypredefgen.module_specific_processing_functions.update({...})
RegisterProcessingFunctions ==
  /\ pc = "module_specific_processing_functions.update"
  /\ \E found \in MakedirsOutcomes :
       IF make_dirs(found) # None
       THEN /\ pc' = make_dirs(found)
            /\ UNCHANGED <<module_specific_processing_functions, plugin>>
       ELSE /\ module_specific_processing_functions' =
                 [m \in DOMAIN module_specific_processing_functions
                          \cup MODULES_FOR_WHICH_TO_IGNORE_DOCSTRINGS |->
                    IF m \in MODULES_FOR_WHICH_TO_IGNORE_DOCSTRINGS
                    THEN <<"remove_class_docstrings">>
                    ELSE module_specific_processing_functions[m]]
            /\ plugin' = [plugin EXCEPT !.i = 1]
            /\ pc' = "for_module_name"
  /\ UNCHANGED <<live, module_node, node_element_map, steps, prev_body,
                 gimp_progress, calls, call,
                 pypredef_files>>

\* The entries of the registry when a later run of the process starts: the
\* nodes of the earlier runs are other objects than the nodes it makes.
KeptFromEarlierRuns(reg) ==
  [id \in {EarlierNode(i) : i \in DOMAIN reg} |->
     reg[CHOOSE i \in DOMAIN reg : EarlierNode(i) = id]]

\* The loop with its body in "try: ... except Exception: pass" before
\* gimp_progress.update(): it goes on with the next module after an
\* exception and counts the module as finished.
ForModuleNameSwallowingExceptions ==
  /\ pc = "for_module_name"
  /\ IF plugin.i > Len(plugin.module_names)
     THEN /\ pc' = "generate_for_pdb"
          /\ UNCHANGED <<plugin, gimp_progress, calls>>
     ELSE /\ PluginUpdate("for_module_name")
          /\ plugin' = [plugin EXCEPT !.i = @ + 1]
  /\ UNCHANGED <<live, module_node, node_element_map,
                 module_specific_processing_functions, steps, prev_body, call,
                 pypredef_files>>

\* One round of "for module_name in module_names", or its end:
\*   module = importlib.import_module(module_name)
\*   pypredefgen.generate_predefined_completions(PYPREDEF_FILES_DIRPATH, module)
\*   gimp_progress.update()
\* generate_predefined_completions(module) declares one parameter and is
\* called with two arguments.  An exception of a statement ends the round
\* and the loop.
ForModuleName ==
  /\ pc = "for_module_name"
  /\ IF plugin.i > Len(plugin.module_names)
     THEN /\ pc' = "generate_for_pdb"
          /\ UNCHANGED <<plugin, gimp_progress, calls, module_node, node_element_map,
                         pypredef_files>>
     ELSE IF plugin.module_names[plugin.i] \notin DOMAIN live.modules
     THEN /\ pc' = "ImportError"
          /\ UNCHANGED <<plugin, gimp_progress, calls, module_node, node_element_map,
                         pypredef_files>>
     ELSE IF RaisesTypeError(1, 2)
     THEN /\ pc' = "TypeError"
          /\ UNCHANGED <<plugin, gimp_progress, calls, module_node, node_element_map,
                         pypredef_files>>
     ELSE \E opened \in BOOLEAN :
            \E generated \in {generate_predefined_completions(
                                live.modules[plugin.module_names[plugin.i]],
                                KeptFromEarlierRuns(node_element_map),
                                module_specific_processing_functions, opened)} :
                /\ module_node' = [body |-> generated.body]
                /\ node_element_map' = generated.reg
                /\ IF generated.raised # None
                   THEN /\ pc' = generated.raised
                        /\ UNCHANGED <<plugin, gimp_progress, calls, pypredef_files>>
                   ELSE /\ pypredef_files' =
                             write_pypredef_file(pypredef_files,
                                                 plugin.module_names[plugin.i], generated,
                                                 opened).files
                        /\ PluginUpdate("for_module_name")
                        /\ plugin' = [plugin EXCEPT !.i = @ + 1]
  /\ UNCHANGED <<live, module_specific_processing_functions, steps, prev_body, call>>

\* if generate_for_pdb:
\*   pypredefgen_pdb.generate_predefined_completions_for_gimp_pdb(PYPREDEF_FILES_DIRPATH)
\*   gimp_progress.update()
\* generate_predefined_completions_for_gimp_pdb() declares no parameter and
\* is called with one argument.
GenerateForPdb ==
  /\ pc = "generate_for_pdb"
  /\ IF ~plugin.generate_for_pdb
     THEN /\ pc' = "done"
          /\ UNCHANGED <<gimp_progress, calls, module_node, node_element_map,
                         pypredef_files>>
     ELSE IF RaisesTypeError(0, 1)
     THEN /\ pc' = "TypeError"
          /\ UNCHANGED <<gimp_progress, calls, module_node, node_element_map,
                         pypredef_files>>
     ELSE \E opened \in BOOLEAN :
            \E generated \in {generate_predefined_completions_for_gimp_pdb(
                                live.pdb, KeptFromEarlierRuns(node_element_map),
                                pypredef_files, opened)} :
                /\ module_node' = [body |-> generated.body]
                /\ node_element_map' = generated.reg
                /\ pypredef_files' = generated.files
                /\ IF generated.raised # None
                   THEN /\ pc' = generated.raised
                        /\ UNCHANGED <<gimp_progress, calls>>
                   ELSE PluginUpdate("done")
  /\ UNCHANGED <<live, module_specific_processing_functions, steps, prev_body, plugin, call>>

NextPlugin ==
  \/ ClientUpdate
  \/ MakeGimpProgress
  \/ RegisterProcessingFunctions
  \/ ForModuleName
  \/ GenerateForPdb

SpecPlugin == InitPlugin /\ [][NextPlugin]_vars

-----------------------------------------------------------------------------
(* The generators and the plug-in, each called on its own: a caller calls  *)
(* generate_predefined_completions(module), a caller calls                 *)
(* generate_predefined_completions_for_gimp_pdb(), or GIMP calls the       *)
(* procedure of the plug-in, whose modules file may name a module that is  *)
(* not there.                                                              *)

NOSUCH == <<N("nosuch")>>

ModulesFilesBulk ==
  ModulesFiles \cup
  {[isfile |-> TRUE, lines |-> lines] : lines \in SeqsUpTo({GIMP, NOSUCH}, MaxModules)}

InitBulk ==
  /\ module_node = [body |-> <<>>]
  /\ node_element_map = << >>
  /\ steps = <<>>
  /\ prev_body = <<>>
  /\ calls = <<>>
  /\ call = NoneObj
  /\ pypredef_files = << >>
  /\ gimp_progress = NoneObj
  /\ \/ /\ pc = "insert_ast_nodes"
        /\ live \in InputsHistory
        /\ module_specific_processing_functions \in ProcessingTables
        /\ plugin = NoneObj
     \/ /\ pc = "generate_predefined_completions_for_gimp_pdb"
        /\ live \in InputsPdb
        /\ module_specific_processing_functions = << >>
        /\ plugin = NoneObj
     \/ /\ pc = "generate_predefined_completions_for_pydev"
        /\ live = GimpInterpreter
        /\ module_specific_processing_functions = << >>
        /\ plugin \in PluginRuns(ModulesFilesBulk)

NextBulk ==
  \/ Next
  \/ GeneratePredefinedCompletionsForGimpPdb
  \/ MakeGimpProgress
  \/ RegisterProcessingFunctions
  \/ ForModuleName
  \/ GenerateForPdb

SpecBulk == InitBulk /\ [][NextBulk]_vars

-----------------------------------------------------------------------------
(* get_full_type_name, called on its own.                                  *)

\* Names of modules: plain, private, with an internal component, nested.
ModuleNames ==
  {GIMP, <<U("gimp")>>, <<N("gimp"), U("gimp")>>, <<N("gimp"), N("gimp")>>,
   <<N("gtk")>>, <<U("gtk")>>, <<N("gtk"), U("gtk")>>, <<N("gtk"), N("gdk")>>,
   <<N("gtk"), U("gtk"), N("gdk")>>, EXT}

\* The live classes the function is called on: class T of the module
\* type_module.
TypesOfModule(type_module) ==
  [bases |-> [c \in {"T"} |-> <<"object">>], cmodule |-> [c \in {"T"} |-> type_module]]

InitNaming ==
  /\ live \in {TypesOfModule(type_module) : type_module \in ModuleNames}
  /\ call \in [type_ : {"T", "X", "int", "Lost"},
               module_root : ModuleNames \cup {NoModule},
               returned : {<<>>}]
  /\ pc = "get_full_type_name"
  /\ module_node = [body |-> <<>>]
  /\ node_element_map = << >>
  /\ module_specific_processing_functions = << >>
  /\ steps = <<>>
  /\ prev_body = <<>>
  /\ gimp_progress = NoneObj
  /\ plugin = NoneObj
  /\ calls = <<>>
  /\ pypredef_files = << >>

GetFullTypeName ==
  /\ pc = "get_full_type_name"
  /\ call' = [call EXCEPT !.returned = get_full_type_name(live, call.type_, call.module_root)]
  /\ pc' = "returned"
  /\ UNCHANGED <<live, module_node, node_element_map, module_specific_processing_functions,
                 steps, prev_body, gimp_progress, plugin, calls,
                 pypredef_files>>

NextNaming == GetFullTypeName

SpecNaming == InitNaming /\ [][NextNaming]_vars

-----------------------------------------------------------------------------
(* The properties.  A pass is judged in the state it leaves: module_node is *)
(* its result and prev_body the body it was given.                          *)

\* The pass that ran last, when it ran to its end.
After(step) ==
  /\ steps # <<>>
  /\ steps[Len(steps)] = step
  /\ pc \notin {"KeyError", "RuntimeError"}

\* The live class a registered class node stands for.
ClassOfNode(node) == node_element_map[node.id].object.cls

\* Every ClassDef of a tree, the nested ones included, in document order.
RECURSIVE AllClassDefs(_)
AllClassDefs(body) ==
  IF body = <<>> THEN <<>>
  ELSE (IF IsClassDef(Head(body))
        THEN <<Head(body)>> \o AllClassDefs(Head(body).body)
        ELSE <<>>) \o AllClassDefs(Tail(body))

\* Every Import of a tree, in depth-first document order.
RECURSIVE AllImports(_)
AllImports(body) ==
  IF body = <<>> THEN <<>>
  ELSE (IF IsImport(Head(body)) THEN <<Head(body)>>
        ELSE IF IsClassDef(Head(body)) THEN AllImports(Head(body).body)
        ELSE <<>>) \o AllImports(Tail(body))

HasNode(body, id) == \E i \in 1..Len(body) : body[i].id = id

IsNotAssign(node) == ~IsAssign(node)

\* The redundancy eliminator run again on what it was given: its snapshots
\* (member_nodes) and the classes it resolved (visited).
Eliminated ==
  remove_redundant_members_from_subclasses(
    live, node_element_map, module_element.module, prev_body)

EliminatedClassElementMap ==
  get_class_element_map(
    node_element_map, SelectSeq(prev_body, IsClassDef), module_element.module)

\* C1: after sort_classes_by_hierarchy, whenever the class of a top-level
\* class node Y is a proper ancestor of the class of a top-level class node X,
\* Y stands at a smaller index of the module body than X.
C1_AncestorsBeforeDescendants ==
  After("sort_classes_by_hierarchy") =>
    \A i, j \in 1..Len(module_node.body) :
      LET X == module_node.body[i]
          Y == module_node.body[j]
      IN  (/\ IsClassDef(X)
           /\ IsClassDef(Y)
           /\ ClassOfNode(Y) \in AncestorsOf(live, ClassOfNode(X))) => j < i

\* C1, for the modules in which no class is found under two names: the
\* ordering holds there.
C1_AncestorsBeforeDescendantsWithoutAliases ==
  (/\ After("sort_classes_by_hierarchy")
   /\ IsInjective([i \in 1..Len(SelectSeq(module_node.body, IsClassDef)) |->
                     ClassOfNode(SelectSeq(module_node.body, IsClassDef)[i])])) =>
    \A i, j \in 1..Len(module_node.body) :
      LET X == module_node.body[i]
          Y == module_node.body[j]
      IN  (/\ IsClassDef(X)
           /\ IsClassDef(Y)
           /\ ClassOfNode(Y) \in AncestorsOf(live, ClassOfNode(X))) => j < i

\* The four attributes of a method the specification compares.
SameNameSignatureAndDoc(f, g) ==
  /\ f.name = g.name
  /\ f.args.args = g.args.args
  /\ f.args.vararg = g.args.vararg
  /\ f.args.kwarg = g.args.kwarg
  /\ ast_get_docstring(f) = ast_get_docstring(g)

\* f differs from g in the name of a parameter both have, or in the
\* documentation text.
DiffersInParameterNameOrDoc(f, g) ==
  \/ \E k \in 1..MinOf(Len(f.args.args), Len(g.args.args)) : f.args.args[k] # g.args.args[k]
  \/ ast_get_docstring(f) # ast_get_docstring(g)

\* C2: after remove_redundant_members_from_subclasses, for top-level classes
\* Base and Derived(Base) that both hold a method f: Derived's body holds f
\* no longer when Derived.f has the name, parameter names, variadic and
\* keyword markers and documentation of Base.f, and still holds it when
\* Derived.f differs from Base.f in a parameter name or in the documentation.
C2_RedundantMethodRemovedDifferentKept ==
  After("remove_redundant_members_from_subclasses") =>
    \A i, j \in 1..Len(prev_body) :
      LET Derived == prev_body[i]
          Base == prev_body[j]
      IN  (/\ IsClassDef(Derived)
           /\ IsClassDef(Base)
           /\ Bases(live, ClassOfNode(Derived)) = <<ClassOfNode(Base)>>) =>
            \A f \in Range(SelectSeq(Derived.body, IsFunctionDef)),
               g \in Range(SelectSeq(Base.body, IsFunctionDef)) :
              f.name = g.name =>
                LET kept == HasNode(NodeById(module_node.body, Derived.id).body, f.id) IN
                /\ SameNameSignatureAndDoc(f, g) => ~kept
                /\ DiffersInParameterNameOrDoc(f, g) => kept

\* C3: a method node of a class the eliminator resolved is removed exactly
\* when the member list of one of its direct bases, as the eliminator
\* compared it, holds a method of the same name, the same parameter-name
\* sequence, the same variadic and keyword names and the same documentation.
C3_MethodRemovedIffSameAsAncestor ==
  After("remove_redundant_members_from_subclasses") =>
    \A c \in Eliminated.visited :
      LET after == NodeById(module_node.body, EliminatedClassElementMap.node[c]).body IN
      \A m \in Range(SelectSeq(Eliminated.member_nodes[c], IsFunctionDef)) :
        (~HasNode(after, m.id)) <=>
          \E p \in Range(Bases(live, c)) :
            \E n \in Range(SelectSeq(Eliminated.member_nodes[p], IsFunctionDef)) :
              SameNameSignatureAndDoc(m, n)

\* The qualified type name of the live value behind a registered Assign
\* node, relative to module_root.
QualifiedTypeName(node, module_root) ==
  get_full_type_name_from_object(live, node_element_map[node.id].object, module_root)

\* The Assign node has a live value: an element in the registry.
HasLiveValue(node) == node.id \in DOMAIN node_element_map

\* The Assign nodes of the classes in done.visited that are gone from the
\* tree are those a direct base holds with the same target and a value of
\* the same qualified type name; done is what the eliminator left, cem the
\* class_element_map it worked with.
AssignsRemovedIffSameType(done, cem) ==
  \A c \in done.visited :
    LET after == NodeById(module_node.body, cem.node[c]).body IN
    \A m \in Range(SelectSeq(done.member_nodes[c], IsAssign)) :
      (~HasNode(after, m.id)) <=>
        \E p \in Range(Bases(live, c)) :
          \E n \in Range(SelectSeq(done.member_nodes[p], IsAssign)) :
            /\ m.targets = n.targets
            /\ HasLiveValue(m) /\ HasLiveValue(n)
            /\ QualifiedTypeName(m, node_element_map[m.id].module)
                 = QualifiedTypeName(n, node_element_map[m.id].module)

\* C4: an Assign node of a class the eliminator resolved is removed exactly
\* when the member list of one of its direct bases, as the eliminator
\* compared it, holds an Assign of the same target whose live value has the
\* same qualified type name, both names taken relative to the module of the
\* descendant's element.
C4_AssignRemovedIffSameTypeInAncestor ==
  After("remove_redundant_members_from_subclasses") =>
    AssignsRemovedIffSameType(Eliminated, EliminatedClassElementMap)

\* C4's case: the eliminator finished, it removed an Assign of a class, and
\* it kept another Assign whose target a direct base holds with a value of
\* another type.
C4_Witness ==
  /\ After("remove_redundant_members_from_subclasses")
  /\ \E c \in Eliminated.visited :
       LET after == NodeById(module_node.body, EliminatedClassElementMap.node[c]).body IN
       /\ \E m \in Range(SelectSeq(Eliminated.member_nodes[c], IsAssign)) : ~HasNode(after, m.id)
       /\ \E m \in Range(SelectSeq(Eliminated.member_nodes[c], IsAssign)) :
            /\ HasNode(after, m.id)
            /\ \E p \in Range(Bases(live, c)) :
                 \E n \in Range(SelectSeq(Eliminated.member_nodes[p], IsAssign)) :
                   m.targets = n.targets

\* C5: remove_duplicate_imports run on its own result changes nothing.
C5_RemoveDuplicateImportsIdempotent ==
  After("remove_duplicate_imports") =>
    remove_duplicate_imports(module_node.body) = module_node.body

\* C5's case: the pass ran on a tree that held three Import nodes of one
\* name, and removed nodes.
C5_Witness ==
  /\ After("remove_duplicate_imports")
  /\ module_node.body # prev_body
  /\ \E i, j, k \in 1..Len(AllImports(prev_body)) :
       /\ i < j /\ j < k
       /\ AllImports(prev_body)[i].names = AllImports(prev_body)[j].names
       /\ AllImports(prev_body)[j].names = AllImports(prev_body)[k].names

\* The dotted names the Import nodes of a tree import.
ImportedNames(body) == UNION {Range(AllImports(body)[i].names) : i \in 1..Len(AllImports(body))}

\* The index in AllImports(body) of the first Import holding name.
FirstImportOf(body, name) ==
  CHOOSE i \in 1..Len(AllImports(body)) :
    /\ name \in Range(AllImports(body)[i].names)
    /\ \A j \in 1..(i - 1) : name \notin Range(AllImports(body)[j].names)

\* C6: after remove_duplicate_imports every imported name stands in exactly
\* one Import node of the tree, once, and that node is the first one that
\* held it in depth-first order; the set of imported names is what it was,
\* and no Import node is left without names.
C6_EachNameImportedOnceFirstKept ==
  After("remove_duplicate_imports") =>
    LET before == AllImports(prev_body)
        after == AllImports(module_node.body)
    IN  /\ ImportedNames(module_node.body) = ImportedNames(prev_body)
        /\ \A i \in 1..Len(after) : after[i].names # <<>>
        /\ \A name \in ImportedNames(prev_body) :
             /\ Cardinality({i \in 1..Len(after) : name \in Range(after[i].names)}) = 1
             /\ \A i \in 1..Len(after) :
                  name \in Range(after[i].names) =>
                    /\ Cardinality({k \in 1..Len(after[i].names) : after[i].names[k] = name}) = 1
                    /\ after[i].id = before[FirstImportOf(prev_body, name)].id

\* C6's case: the pass removed an Import that stood inside a class body,
\* the name being imported before it in the tree.
C6_Witness ==
  /\ After("remove_duplicate_imports")
  /\ \E i \in 1..Len(prev_body) :
       /\ IsClassDef(prev_body[i])
       /\ \E k \in 1..Len(prev_body[i].body) :
            /\ IsImport(prev_body[i].body[k])
            /\ ~HasNode(module_node.body[i].body, prev_body[i].body[k].id)

\* A class body with its Assign nodes, in their order, put before its first
\* FunctionDef, or at its end when it has none.
AssignsBeforeFirstMethod(class_body) ==
  LET others == SelectSeq(class_body, IsNotAssign)
      methods == IndicesOfKind(others, "FunctionDef")
      first == IF methods # <<>> THEN methods[1] ELSE Len(others)
  IN  SubSeq(others, 1, first) \o SelectSeq(class_body, IsAssign)
        \o SubSeq(others, first + 1, Len(others))

\* C7: after move_class_level_variables_before_methods the body of every
\* class of the tree is its former body with the Assign nodes, in their
\* order, as one block before the first FunctionDef (at the end without
\* one), the other nodes keeping their order.
C7_AssignsBeforeMethodsInEveryClass ==
  After("move_class_level_variables_before_methods") =>
    \A i \in 1..Len(AllClassDefs(prev_body)) :
      AllClassDefs(module_node.body)[i].body
        = AssignsBeforeFirstMethod(AllClassDefs(prev_body)[i].body)

\* C7, for the classes at the top level of the module: the pass orders
\* their bodies.
C7_AssignsBeforeMethodsInTopLevelClasses ==
  After("move_class_level_variables_before_methods") =>
    \A i \in 1..Len(prev_body) :
      IsClassDef(prev_body[i]) =>
        module_node.body[i].body = AssignsBeforeFirstMethod(prev_body[i].body)

\* C8: after move_top_level_variables_to_end the module body is its former
\* nodes that are no Assign, in their order, followed by its former Assign
\* nodes, in their order.
C8_TopLevelAssignsMovedToEnd ==
  After("move_top_level_variables_to_end") =>
    module_node.body
      = SelectSeq(prev_body, IsNotAssign) \o SelectSeq(prev_body, IsAssign)

\* C8's case: the pass moved an Assign that stood before a node of another
\* kind, and the body holds at least two Assign nodes.
C8_Witness ==
  /\ After("move_top_level_variables_to_end")
  /\ module_node.body # prev_body
  /\ Len(SelectSeq(prev_body, IsAssign)) >= 2
  /\ \E i, j \in 1..Len(prev_body) :
       i < j /\ IsAssign(prev_body[i]) /\ ~IsAssign(prev_body[j])

\* C9: once process_ast_nodes has finished no class of the tree has an empty
\* body; fix_empty_class_bodies gives a class whose body was empty exactly
\* one ast.Pass and gives a class whose body was not empty none.
C9_NoEmptyClassBody ==
  /\ pc \in {"write_pypredef_file", "done"} =>
       \A i \in 1..Len(AllClassDefs(module_node.body)) :
         AllClassDefs(module_node.body)[i].body # <<>>
  /\ After("fix_empty_class_bodies") =>
       \A i \in 1..Len(AllClassDefs(prev_body)) :
         LET old == AllClassDefs(prev_body)[i].body
             new == AllClassDefs(module_node.body)[i].body
         IN  /\ old = <<>> => (Len(new) = 1 /\ IsPass(new[1]))
             /\ old # <<>> => (Len(new) = Len(old) /\ \A k \in 1..Len(new) : ~IsPass(new[k]))

\* C9's case: fix_empty_class_bodies ran on a tree with a class whose body
\* the earlier passes had emptied and a class whose body they had not.
C9_Witness ==
  /\ After("fix_empty_class_bodies")
  /\ \E i \in 1..Len(AllClassDefs(prev_body)) : AllClassDefs(prev_body)[i].body = <<>>
  /\ \E i \in 1..Len(AllClassDefs(prev_body)) : AllClassDefs(prev_body)[i].body # <<>>
  /\ \E i \in 1..Len(AllClassDefs(module_node.body)) :
       AllClassDefs(module_node.body)[i].body = <<PassNode(
         NodeId(AllClassDefs(module_node.body)[i].id.path, "pass", <<>>))>>

\* The steps entered so far are the first steps of the pipeline, in its
\* order, each entered once.
StepsInPipelineOrder ==
  /\ Len(steps) <= Len(PipelineOrder)
  /\ steps = SubSeq(PipelineOrder, 1, Len(steps))

\* The run of the pipeline for the module is over.
RunOver == pc \in {"done", "KeyError", "RuntimeError", "IOError"}

\* C10: the steps of the pipeline are entered in the pipeline's order, none
\* twice, and a run that is over has entered and finished every one of them.
C10_EveryStepOnceInOrder ==
  /\ StepsInPipelineOrder
  /\ RunOver => (steps = PipelineOrder /\ pc = "done")

\* C10, for the order alone: what a run enters, it enters in the pipeline's
\* order and once.
C10_StepsNeverOutOfOrder == StepsInPipelineOrder

\* The body a top-level class node has now.
BodyNow(id) == NodeById(module_node.body, id).body

\* C11: the redundancy eliminator never ends in a failure: it raises no
\* KeyError, and when it has finished every Assign node of a top-level class
\* that has no entry in the registry is still in the body of its class.
C11_EliminatorNeverFails ==
  /\ pc # "KeyError"
  /\ After("remove_redundant_members_from_subclasses") =>
       \A i \in 1..Len(prev_body) :
         IsClassDef(prev_body[i]) =>
           \A m \in Range(SelectSeq(prev_body[i].body, IsAssign)) :
             ~HasLiveValue(m) => HasNode(BodyNow(prev_body[i].id), m.id)

\* The eliminator found the class member m equal to a member of the direct
\* base p, member_nodes being the snapshots it compared.
FoundEqual(member_nodes, m, p) ==
  remove_redundant_class_member_node(live, node_element_map, m, member_nodes[p]) = "equal"

FoundEqualInSomeBase(member_nodes, c, m) ==
  \E p \in Range(Bases(live, c)) : FoundEqual(member_nodes, m, p)

\* The body of class c is its snapshot less the members found equal to a
\* member of a direct base, and removing one of these once more changes
\* nothing.
RemovedOnce(member_nodes, c, after) ==
  /\ after = SelectSeq(member_nodes[c], LAMBDA m : ~FoundEqualInSomeBase(member_nodes, c, m))
  /\ \A m \in Range(member_nodes[c]) :
       FoundEqualInSomeBase(member_nodes, c, m) => remove_ast_node(m.id, after) = after

\* Some member of class c was found equal to members of two direct bases and
\* is gone, while the class keeps another member.
RemovedForTwoBases(member_nodes, c, after) ==
  /\ after # <<>>
  /\ \E m \in Range(member_nodes[c]) :
       /\ \E p, q \in Range(Bases(live, c)) :
            p # q /\ FoundEqual(member_nodes, m, p) /\ FoundEqual(member_nodes, m, q)
       /\ ~HasNode(after, m.id)

\* C12: removing a node that is not in the body changes nothing.  After the
\* eliminator the body of a resolved class is its snapshot less the members
\* found equal to a member of a direct base, whatever the number of bases
\* that hold an equal member, and removing a removed member once more leaves
\* that body as it is.
C12_RemovingAbsentNodeIsNoOp ==
  After("remove_redundant_members_from_subclasses") =>
    LET done == Eliminated IN
    \A c \in done.visited :
      RemovedOnce(done.member_nodes, c, BodyNow(EliminatedClassElementMap.node[c]))

\* C12's case: a class with two direct bases that both hold a member equal
\* to a member of the class, which is gone, while another member of the
\* class is kept.
C12_Witness ==
  /\ After("remove_redundant_members_from_subclasses")
  /\ LET done == Eliminated IN
     \E c \in done.visited :
       RemovedForTwoBases(done.member_nodes, c, BodyNow(EliminatedClassElementMap.node[c]))

\* The 0-based indices of the body that hold class nodes.
ClassIndices(body) == Range(IndicesOfKind(body, "ClassDef"))

\* No top-level class of the body was found under two names: the class
\* nodes stand for different live classes.
NoClassFoundTwice(body) ==
  IsInjective([i \in 1..Len(SelectSeq(body, IsClassDef)) |->
                 ClassOfNode(SelectSeq(body, IsClassDef)[i])])

\* new_body is body with the class nodes permuted among the indices that
\* held class nodes: the other nodes are where they were, and every node of
\* body is in new_body once.
ClassNodesPermuted(body, new_body) ==
  /\ Len(new_body) = Len(body)
  /\ ClassIndices(new_body) = ClassIndices(body)
  /\ \A i \in 1..Len(body) : ~IsClassDef(body[i]) => new_body[i] = body[i]
  /\ \A i \in 1..Len(body) :
       Cardinality({j \in 1..Len(new_body) : new_body[j] = body[i]}) = 1

\* C13: sort_classes_by_hierarchy only permutes the top-level class nodes
\* among the indices that held class nodes: every other node keeps its
\* index, the indices of the class nodes are the same set, and no node is
\* added, lost or duplicated; also when a class was found under two names.
C13_SortPermutesClassNodesInPlace ==
  After("sort_classes_by_hierarchy") => ClassNodesPermuted(prev_body, module_node.body)

\* C13, for the modules in which no class is found under two names: there
\* the pass permutes the class nodes in place.
C13_SortPermutesClassNodesInPlaceWithoutAliases ==
  (After("sort_classes_by_hierarchy") /\ NoClassFoundTwice(prev_body)) =>
    ClassNodesPermuted(prev_body, module_node.body)

\* The top-level class nodes the pass was given, and the 0-based index of
\* a node before the pass and after it.
ClassNodesBefore == Range(SelectSeq(prev_body, IsClassDef))

StoodAt(node) == NodeIndex(prev_body, node.id)

StandsAt(node) == NodeIndex(module_node.body, node.id)

\* Neither class is the other or an ancestor of the other.
Unrelated(c, d) ==
  /\ c # d
  /\ c \notin AncestorsOf(live, d)
  /\ d \notin AncestorsOf(live, c)

\* The nodes x and y of two unrelated classes, x standing before y before
\* the pass, stand in that order after it.
OrderKept(x, y) ==
  (Unrelated(ClassOfNode(x), ClassOfNode(y)) /\ StoodAt(x) < StoodAt(y)) =>
    StandsAt(x) < StandsAt(y)

\* The class of node y is an ancestor of a top-level class a node of which
\* stood before node x: to stand before that descendant the ancestor has to
\* pass x.
DescendantStoodBefore(y, x) ==
  \E e \in ClassNodesBefore :
    StoodAt(e) < StoodAt(x) /\ ClassOfNode(y) \in AncestorsOf(live, ClassOfNode(e))

\* C14: after sort_classes_by_hierarchy any two top-level class nodes of
\* unrelated classes stand in the relative order they had before the pass.
C14_UnrelatedClassesKeepOrder ==
  After("sort_classes_by_hierarchy") =>
    \A x, y \in ClassNodesBefore : OrderKept(x, y)

\* C14, where the hierarchy forces no move: the nodes of two unrelated
\* classes stand in the order they had unless the later one is an ancestor
\* of a top-level class that stood before the earlier one.  It fails in the
\* modules in which a class is found under two names.
C14_UnrelatedClassesKeepOrderUnlessAncestorMovedAhead ==
  After("sort_classes_by_hierarchy") =>
    \A x, y \in ClassNodesBefore : ~DescendantStoodBefore(y, x) => OrderKept(x, y)

\* C14, what holds: in the modules in which no class is found under two
\* names the nodes of two unrelated classes stand in the order they had
\* unless the later one is an ancestor of a top-level class that stood
\* before the earlier one.
C14_UnrelatedClassesKeepOrderWithoutAliases ==
  (After("sort_classes_by_hierarchy") /\ NoClassFoundTwice(prev_body)) =>
    \A x, y \in ClassNodesBefore : ~DescendantStoodBefore(y, x) => OrderKept(x, y)

\* C17: the finished count of a GimpProgress is within 0 and the total after
\* every sequence of calls of update; a call that would exceed the total
\* raises ValueError and leaves the count as it is, every other call adds
\* num_tasks to it; and a run of the plug-in that ends without an exception
\* has called update num_total_tasks times, has finished = total and has
\* seen no ValueError.
C17_FinishedTasksWithinTotal ==
  /\ gimp_progress # NoneObj =>
       /\ 0 <= gimp_progress.num_finished_tasks
       /\ gimp_progress.num_finished_tasks <= gimp_progress.num_total_tasks
  /\ \A k \in 1..Len(calls) :
       /\ calls[k].raised = "ValueError"
            <=> calls[k].before + calls[k].num_tasks > gimp_progress.num_total_tasks
       /\ calls[k].after = IF calls[k].raised = "ValueError" THEN calls[k].before
                           ELSE calls[k].before + calls[k].num_tasks
  /\ (plugin # NoneObj /\ pc = "done") =>
       /\ Len(calls) = gimp_progress.num_total_tasks
       /\ gimp_progress.num_finished_tasks = gimp_progress.num_total_tasks
       /\ \A k \in 1..Len(calls) : calls[k].raised # "ValueError"

\* C17, for calls of update with num_tasks >= 0: the count stays within 0
\* and the total.
C17_FinishedTasksWithinTotalForCountsFromZero ==
  (gimp_progress # NoneObj /\ \A k \in 1..Len(calls) : calls[k].num_tasks >= 0) =>
    /\ 0 <= gimp_progress.num_finished_tasks
    /\ gimp_progress.num_finished_tasks <= gimp_progress.num_total_tasks

\* "_" + module_name
Underscored(module_name) ==
  <<[module_name[1] EXCEPT !.us = @ + 1]>> \o Tail(module_name)

\* The normalized name of a module: a second component that is the first
\* one with underscores before it ("gtk._gtk") is left out.
Normalized(module_name) ==
  IF /\ Len(module_name) >= 2
     /\ module_name[1].us = 0
     /\ module_name[2].base = module_name[1].base
  THEN <<module_name[1]>> \o SubSeq(module_name, 3, Len(module_name))
  ELSE module_name

\* The equivalence of module names: the same name, one the other with "_"
\* before it, or one the normalized name of the other.
NamesEquivalent(a, b) ==
  \/ a = b
  \/ a = Underscored(b) \/ b = Underscored(a)
  \/ Normalized(a) = b \/ a = Normalized(b)

\* The call of get_full_type_name has returned.
Returned == pc = "returned"

\* The module the type of the call belongs to (its __module__).
OwningModule == ClassModule(live, call.type_)

OwningModuleIsRoot ==
  call.module_root # NoModule /\ NamesEquivalent(OwningModule, call.module_root)

\* C15, as claimed: get_full_type_name returns the bare class name when the
\* module of the type is module_root, by name or by the equivalence of names,
\* or the built-in module, and the normalized name of the module, a dot and
\* the class name otherwise; without module_root a type that is not built in
\* is returned qualified.
C15_FullTypeName ==
  Returned =>
    call.returned = IF OwningModule = BUILTIN \/ OwningModuleIsRoot
                    THEN <<N(call.type_)>>
                    ELSE Normalized(OwningModule) \o <<N(call.type_)>>

\* C15, amended: the bare class name is also what is returned for a type
\* for which inspect.getmodule finds no module.
C15_FullTypeNameOfTypeWithModule ==
  Returned =>
    call.returned = IF \/ inspect_getmodule(live, call.type_) = NoModule
                       \/ OwningModule = BUILTIN
                       \/ OwningModuleIsRoot
                    THEN <<N(call.type_)>>
                    ELSE Normalized(OwningModule) \o <<N(call.type_)>>

\* C15's case: the call returned the bare name for a type of a module whose
\* name is not module_root's but equivalent to it.
C15_Witness ==
  /\ Returned
  /\ call.module_root # NoModule
  /\ OwningModule # call.module_root
  /\ OwningModule # BUILTIN
  /\ call.returned = <<N(call.type_)>>
  /\ call.type_ \notin LostClasses

\* Every FunctionDef of a tree, those of the classes included.
RECURSIVE AllFunctionDefs(_)
AllFunctionDefs(body) ==
  IF body = <<>> THEN <<>>
  ELSE (IF IsFunctionDef(Head(body)) THEN <<Head(body)>>
        ELSE IF IsClassDef(Head(body)) THEN AllFunctionDefs(Head(body).body)
        ELSE <<>>) \o AllFunctionDefs(Tail(body))

\* The live routine a FunctionDef stands for, and whether the walker found
\* it in a class.
RoutineOfNode(node) == node_element_map[node.id].object

FoundInClass(node) == Len(node.id.path) > 1

NoArguments == [args |-> <<>>, vararg |-> None, kwarg |-> None, defaults |-> <<>>]

\* The FunctionDefs, of those given, of the routines whose signature cannot
\* be reflected.
OpaqueOnes(function_nodes) ==
  SelectSeq(function_nodes, LAMBDA node : RoutineOfNode(node).opaque)

EachHasNoArguments(function_nodes) ==
  \A i \in 1..Len(function_nodes) : function_nodes[i].args = NoArguments

EachHasNoArgumentsButSelf(function_nodes) ==
  \A i \in 1..Len(function_nodes) :
    function_nodes[i].args =
      [NoArguments EXCEPT
         !.args = IF FoundInClass(function_nodes[i]) THEN <<"self">> ELSE <<>>]

\* C16: after the walk, the FunctionDef of every routine whose signature
\* cannot be reflected, function of the module or method of a class, has an
\* empty parameter list, no variadic name, no keyword-catch-all name and no
\* defaults.
C16_OpaqueRoutineHasNoArguments ==
  After("insert_ast_nodes") =>
    EachHasNoArguments(OpaqueOnes(AllFunctionDefs(module_node.body)))

\* C16, amended: the parameter list is empty for a function of the module
\* and holds the one name self for a method of a class; neither has a
\* variadic name, a keyword-catch-all name or defaults.
C16_OpaqueRoutineHasNoArgumentsButSelf ==
  After("insert_ast_nodes") =>
    EachHasNoArgumentsButSelf(OpaqueOnes(AllFunctionDefs(module_node.body)))

\* An opaque function of the module and an opaque method of a class, both
\* walked.
SomeInModuleSomeInClass(function_nodes) ==
  \E i, j \in 1..Len(function_nodes) :
    ~FoundInClass(function_nodes[i]) /\ FoundInClass(function_nodes[j])

C16_Witness ==
  /\ After("insert_ast_nodes")
  /\ SomeInModuleSomeInClass(OpaqueOnes(AllFunctionDefs(module_node.body)))

\* What inspect.getargspec reports of a routine, the opaque one having
\* nothing to report.
Reflected(routine) == IF routine.opaque THEN NoArguments
                      ELSE [args |-> routine.args, vararg |-> routine.vararg,
                            kwarg |-> routine.kwarg, defaults |-> routine.defaults]

ArgumentsOfMethodOrFunction(node, reflected) ==
  [reflected EXCEPT
     !.args = IF FoundInClass(node) /\ reflected.args = <<>>
              THEN <<"self">> ELSE reflected.args]

EachHasSelfWhenDue(function_nodes) ==
  \A i \in 1..Len(function_nodes) :
    function_nodes[i].args =
      ArgumentsOfMethodOrFunction(function_nodes[i],
                                  Reflected(RoutineOfNode(function_nodes[i])))

\* C20: after the walk, the FunctionDef of a routine found in a class has
\* the parameter list [self] when the routine has no reflected parameter and
\* the reflected parameter list when it has one or more; the FunctionDef of
\* a routine found in the module has the reflected parameter list.  The
\* variadic name, the keyword-catch-all name and the defaults are the
\* reflected ones in every case.
C20_SelfExactlyForMethodsWithoutParameters ==
  After("insert_ast_nodes") => EachHasSelfWhenDue(AllFunctionDefs(module_node.body))

\* A method without reflected parameters, a method with one and a function
\* of the module without any, all walked.
MethodsOfBothSortsAndFunction(function_nodes) ==
  \E i, j, k \in 1..Len(function_nodes) :
    LET m == function_nodes[i]
        n == function_nodes[j]
        f == function_nodes[k]
    IN  /\ FoundInClass(m) /\ Reflected(RoutineOfNode(m)).args = <<>>
        /\ FoundInClass(n) /\ Reflected(RoutineOfNode(n)).args # <<>>
        /\ ~FoundInClass(f) /\ Reflected(RoutineOfNode(f)).args = <<>>

C20_Witness ==
  /\ After("insert_ast_nodes")
  /\ MethodsOfBothSortsAndFunction(AllFunctionDefs(module_node.body))

\* The nodes of a body that the walker made for the members found by dir(),
\* and the name each was found under.
IsMemberNode(node) == node.id.tag = "member"

MemberNodes(body) == SelectSeq(body, IsMemberNode)

MemberName(node) == node.id.path[Len(node.id.path)]

\* The declaration a member is to get: the first case that matches.
DeclarationKind(object_, name) ==
  IF inspect_ismodule(object_) THEN "Import"
  ELSE IF inspect_isclass(object_) /\ name # "__class__" THEN "ClassDef"
  ELSE IF inspect_isroutine(object_) THEN "FunctionDef"
  ELSE "Assign"

\* The order the member nodes are to stand in: the sub-modules first, the
\* one found last ahead (each was put at the front), then the other members
\* in the order of dir().
DeclarationOrder(object_) ==
  LET names == Dir(live, object_) IN
  Reverse(SelectSeq(names, LAMBDA n : inspect_ismodule(Getattr(live, object_, n))))
    \o SelectSeq(names, LAMBDA n : ~inspect_ismodule(Getattr(live, object_, n)))

\* A walked object and the body made for it: every member of dir() has one
\* node, of its kind and at its place; a member that is None is an Assign
\* of the name None.
MembersClassified(object_, body) ==
  LET order == DeclarationOrder(object_)
      member_nodes == MemberNodes(body)
  IN  /\ Len(member_nodes) = Len(order)
      /\ \A i \in 1..Len(order) :
           LET child == Getattr(live, object_, order[i]) IN
           /\ MemberName(member_nodes[i]) = order[i]
           /\ member_nodes[i].kind = DeclarationKind(child, order[i])
           /\ child = NoneObj => member_nodes[i].value = [tag |-> "Name", id |-> <<N("None")>>]

\* The module and every class the walker went into are classified so.
EveryWalkedObjectClassified ==
  /\ MembersClassified(module_element.object, module_node.body)
  /\ \A i \in 1..Len(AllClassDefs(module_node.body)) :
       LET node == AllClassDefs(module_node.body)[i] IN
       MembersClassified(node_element_map[node.id].object, node.body)

\* C19: once insert_ast_nodes has been entered it has ended, and the module
\* and every class found under a name other than __class__ hold one node
\* for each name of dir(): an Import for a sub-module, a ClassDef for such a
\* class, a FunctionDef for a routine, an Assign for anything else; the
\* Imports stand first and the other nodes in the order of dir().
C19_EveryMemberClassifiedOnce ==
  pc # "insert_ast_nodes" =>
    /\ pc # "RuntimeError"
    /\ After("insert_ast_nodes") => EveryWalkedObjectClassified

\* C19, on the walks that end: the classification is as claimed.
C19_EveryMemberClassifiedOnceWhenWalkEnds ==
  After("insert_ast_nodes") => EveryWalkedObjectClassified

\* What the run has come to: its tree and the exception it ended with.
Outcome ==
  [body |-> module_node.body, raised |-> IF pc = "done" THEN None ELSE pc]

\* The outcome of the pipeline run on the namespace in a fresh process,
\* fresh being generate_predefined_completions from an empty registry.
OutcomeOf(fresh) == [body |-> fresh.body, raised |-> fresh.raised]

\* io.open has opened the file of the run, or the run has ended before it
\* called io.open.
FileOpened == pc # "IOError"

\* C18: when the run is over its tree (the same nodes in the same order)
\* and its end are those of a run on the same namespace that starts with an
\* empty registry, whatever earlier runs on the same or on other namespaces
\* have left in the registry; the fresh run finds the file system the run
\* found.
C18_OutcomeIndependentOfEarlierRuns ==
  RunOver =>
    Outcome = OutcomeOf(generate_predefined_completions(
                          live, << >>, module_specific_processing_functions, FileOpened))

\* A finished run that imports and orders classes in a process whose
\* registry held the nodes of an earlier run, and still holds them.
C18_Witness ==
  /\ pc = "done"
  /\ \E id \in DOMAIN node_element_map :
       id.path # <<>> /\ id.path[1] = "earlier run"
  /\ \E i, j \in 1..Len(module_node.body) :
       IsImport(module_node.body[i]) /\ IsClassDef(module_node.body[j])

\* C30: the walk ends: insert_ast_nodes never ends in the RuntimeError that
\* Python raises when the recursion into the members of classes does not
\* return.
C30_WalkTerminates == pc # "RuntimeError"

\* sort_classes_by_hierarchy applied once more to the body the module has.
SortedAgain ==
  sort_classes_by_hierarchy(live, node_element_map, module_element.module, module_node.body)

\* The top-level classes of a body stand ancestors first.
AncestorsFirst(body) ==
  \A i, j \in 1..Len(body) :
    (/\ IsClassDef(body[i])
     /\ IsClassDef(body[j])
     /\ ClassOfNode(body[j]) \in AncestorsOf(live, ClassOfNode(body[i]))) => j < i

\* C29: sort_classes_by_hierarchy applied to its own result returns it
\* unchanged, and a body whose classes stood ancestors first when the pass
\* was given it is returned unchanged.
C29_SortIdempotent ==
  After("sort_classes_by_hierarchy") =>
    /\ SortedAgain = module_node.body
    /\ AncestorsFirst(prev_body) => module_node.body = prev_body

\* C29, for the modules in which no class is found under two names: both
\* parts hold there.
C29_SortIdempotentWithoutAliases ==
  (After("sort_classes_by_hierarchy") /\ NoClassFoundTwice(prev_body)) =>
    /\ SortedAgain = module_node.body
    /\ AncestorsFirst(prev_body) => module_node.body = prev_body

\* The member list of the direct base p as it was before any removal: the
\* body its node had when the pass began, or the body of the node that the
\* pass (done) synthesized for a class that has no node in the module.
MembersBeforeRemoval(done, p) ==
  IF p \in DOMAIN EliminatedClassElementMap.node
  THEN NodeById(prev_body, EliminatedClassElementMap.node[p]).body
  ELSE done.ext[p].body

\* The member m of class c equals a member that a direct base of c had
\* before any removal.
EqualsMemberOfBase(done, c, m) ==
  \E p \in Range(Bases(live, c)) :
    remove_redundant_class_member_node(
      live, done.reg, m, MembersBeforeRemoval(done, p)) = "equal"

\* Every top-level class node holds the members it had less those that
\* equal a member of a direct base.
EveryClassNodeResolved(done) ==
  \A i \in 1..Len(prev_body) :
    IsClassDef(prev_body[i]) =>
      BodyNow(prev_body[i].id) =
        SelectSeq(prev_body[i].body,
                  LAMBDA m : ~EqualsMemberOfBase(done, ClassOfNode(prev_body[i]), m))

\* The pass run on the class nodes of the body it was given, taken in the
\* order f.
EliminatedInOrder(f) ==
  remove_redundant_members_from_subclasses(
    live, node_element_map, module_element.module,
    [i \in DOMAIN f |-> SelectSeq(prev_body, IsClassDef)[f[i]]])

\* Whatever the order of the class nodes, the pass ends and leaves every
\* class node the body it has now.
SameForEveryOrder ==
  \A f \in Permutations(1..Len(SelectSeq(prev_body, IsClassDef))) :
    LET done == EliminatedInOrder(f) IN
    /\ ~done.error
    /\ \A i \in 1..Len(done.body) : done.body[i].body = BodyNow(done.body[i].id)

\* C28: after the eliminator every top-level class node holds the members
\* it had less those equal to a member that one of its direct bases had
\* before any removal (the body of the base's node when the pass began, or
\* of the node synthesized for a foreign base), and the pass leaves the
\* same class bodies for every order of the class nodes.
C28_ResolvedAgainstBasesBeforeRemovalInAnyOrder ==
  After("remove_redundant_members_from_subclasses") =>
    /\ EveryClassNodeResolved(Eliminated)
    /\ SameForEveryOrder

\* C28, for the modules in which no class is found under two names: both
\* parts hold there.
C28_ResolvedAgainstBasesBeforeRemovalWithoutAliases ==
  (After("remove_redundant_members_from_subclasses") /\ NoClassFoundTwice(prev_body)) =>
    /\ EveryClassNodeResolved(Eliminated)
    /\ SameForEveryOrder

\* No documentation node of the body stands behind another node.
DocFirst(body) == \A i \in 2..Len(body) : ~IsExpr(body[i])

\* The same of the body of every class and of every routine of a tree.
RECURSIVE DocFirstInside(_)
DocFirstInside(body) ==
  \A i \in 1..Len(body) :
    (IsClassDef(body[i]) \/ IsFunctionDef(body[i])) =>
      DocFirst(body[i].body) /\ DocFirstInside(body[i].body)

\* What remove_class_docstrings is to leave of a top-level node: a class
\* that has a documentation node loses that node, any other node is kept.
WithoutDocumentation(node) ==
  IF IsClassDef(node) /\ node.body # <<>> /\ IsExpr(node.body[1])
  THEN [node EXCEPT !.body = Tail(@)]
  ELSE node

OnlyClassDocumentationDeleted ==
  /\ Len(module_node.body) = Len(prev_body)
  /\ \A i \in 1..Len(prev_body) : module_node.body[i] = WithoutDocumentation(prev_body[i])

\* C25: once the walk has ended the documentation node of a class or of a
\* routine is the first node of its body, and once insert_ast_docstring has
\* run on the module so is the one of the module, in the state each pass
\* leaves; remove_class_docstrings, when it is registered for the module,
\* leaves every top-level node as it was but for the documentation node of
\* the classes that have one.
C25_DocumentationFirst ==
  /\ (steps # <<>> /\ pc # "RuntimeError") => DocFirstInside(module_node.body)
  /\ Len(steps) >= 2 => DocFirst(module_node.body)
  /\ (/\ After("module_specific_processing_functions")
      /\ module_element.module \in DOMAIN module_specific_processing_functions)
       => OnlyClassDocumentationDeleted

\* A documented module whose documented class held, after the assignments
\* were moved, its documentation, then its assignments, then a documented
\* method, and has lost the documentation to remove_class_docstrings.
C25_Witness ==
  /\ After("module_specific_processing_functions")
  /\ module_node.body # <<>> /\ IsExpr(module_node.body[1])
  /\ \E i \in 1..Len(prev_body) :
       LET node == prev_body[i] IN
       /\ IsClassDef(node)
       /\ Len(node.body) >= 3
       /\ IsExpr(node.body[1])
       /\ IsAssign(node.body[2])
       /\ \E j \in 3..Len(node.body) :
            IsFunctionDef(node.body[j]) /\ IsExpr(node.body[j].body[1])
       /\ module_node.body[i].body = Tail(node.body)

\* In the body every Import stands before every node that is neither an
\* Import nor a documentation node.
ImportsLead(body) ==
  \A i, j \in 1..Len(body) :
    (IsImport(body[j]) /\ ~IsImport(body[i]) /\ ~IsExpr(body[i])) => j < i

\* The walk has ended and remove_duplicate_imports has not run yet.
BeforeDeduplication ==
  /\ steps # <<>>
  /\ pc # "RuntimeError"
  /\ "remove_duplicate_imports" \notin Range(steps)

Imports(body, module_name) ==
  \E i \in 1..Len(body) : IsImport(body[i]) /\ module_name \in Range(body[i].names)

\* The module of base class b is another one than the module of class c,
\* and not the built-in one.
DefinedElsewhere(b, c) ==
  /\ ClassModule(live, b) # BUILTIN
  /\ ClassModule(live, b) # ClassModule(live, c)

\* The same, the names of the two modules not being equivalent either.
DefinedInForeignModule(b, c) ==
  /\ ClassModule(live, b) # BUILTIN
  /\ ~NamesEquivalent(ClassModule(live, b), ClassModule(live, c))

\* C26: once the walk has ended the Imports of the module body stand before
\* its classes, routines and assignments, in the state every pass leaves;
\* and until remove_duplicate_imports runs the body imports the normalized
\* name of the module of every base class of a top-level class that is
\* defined in another module than the class and not in the built-in one.
C26_ImportsLeadAndBasesImported ==
  /\ (steps # <<>> /\ pc # "RuntimeError") => ImportsLead(module_node.body)
  /\ BeforeDeduplication =>
       \A i \in 1..Len(module_node.body) :
         IsClassDef(module_node.body[i]) =>
           \A b \in Range(Bases(live, ClassOfNode(module_node.body[i]))) :
             DefinedElsewhere(b, ClassOfNode(module_node.body[i])) =>
               Imports(module_node.body, Normalized(ClassModule(live, b)))

\* C26, amended: the module of the base class is imported when its name is
\* not equivalent to the name of the module of the class either (the one
\* with "_" before the other, or one the normalized name of the other).
C26_ImportsLeadAndForeignBasesImported ==
  /\ (steps # <<>> /\ pc # "RuntimeError") => ImportsLead(module_node.body)
  /\ BeforeDeduplication =>
       \A i \in 1..Len(module_node.body) :
         IsClassDef(module_node.body[i]) =>
           \A b \in Range(Bases(live, ClassOfNode(module_node.body[i]))) :
             DefinedInForeignModule(b, ClassOfNode(module_node.body[i])) =>
               Imports(module_node.body, Normalized(ClassModule(live, b)))

\* A body, sorted, that imports a sub-module and the module of the foreign
\* base of one of its classes, and holds an assignment.
C26_Witness ==
  /\ After("sort_classes_by_hierarchy")
  /\ Imports(module_node.body, <<N("sub")>>)
  /\ \E i, j \in 1..Len(module_node.body) :
       /\ IsAssign(module_node.body[j])
       /\ IsClassDef(module_node.body[i])
       /\ \E b \in Range(Bases(live, ClassOfNode(module_node.body[i]))) :
            /\ DefinedInForeignModule(b, ClassOfNode(module_node.body[i]))
            /\ Imports(module_node.body, Normalized(ClassModule(live, b)))

-----------------------------------------------------------------------------
(* The calls of Element.set_node.                                          *)

RECURSIVE set_node_calls_each(_, _, _, _, _, _)
RECURSIVE set_node_calls(_, _, _, _, _, _)

\* The calls of set_node that insert_ast_nodes(element) makes, in their
\* order, added to the calls made so far: the element of each call, named
\* by the path of its member, and the node the call sets.  error tells that
\* the walk has ended in RuntimeError: no call follows it.
set_node_calls_of_insert_ast_nodes(L, element, path, stack, acc) ==
  set_node_calls_each(L, Dir(L, element.object), element, path, stack, acc)

\* for child_member_name in dir(element.object): the loop ends with the
\* member in which the walk raised.
set_node_calls_each(L, names, element, path, stack, acc) ==
  IF names = <<>> \/ acc.error THEN acc
  ELSE set_node_calls_each(L, Tail(names), element, path, stack,
         set_node_calls(L, Head(names), element, path, stack, acc))

\* insert_ast_node: one call of child_element.set_node in each branch; for a
\* class the argument of that call is get_ast_node_for_class(child_element),
\* which has called class_element.set_node(class_node) on the same element
\* before it walked the members of the class.  When the walk of the members
\* raises, get_ast_node_for_class does not return and the call of
\* insert_ast_node is not made.
set_node_calls(L, child_member_name, element, path, stack, acc) ==
  LET child_element ==
        Element(Getattr(L, element.object, child_member_name), child_member_name,
                element.module)
      child_path == Append(path, child_member_name)
      set_node == [element |-> child_path, node |-> NodeId(child_path, "member", <<>>)]
      called == [acc EXCEPT !.made = Append(@, set_node)]
  IN
  IF inspect_ismodule(child_element.object) THEN called
  ELSE IF inspect_isclass(child_element.object) /\ can_inspect_class_element(child_element)
  THEN IF Len(stack) >= MaxRecursionDepth THEN [called EXCEPT !.error = TRUE]
       ELSE LET walked == set_node_calls_of_insert_ast_nodes(
                            L, child_element, child_path,
                            Append(stack, child_element.object.cls), called)
            IN  IF walked.error THEN walked
                ELSE [walked EXCEPT !.made = Append(@, set_node)]
  ELSE called

\* The calls of set_node of a run up to the end of the walk: the one
\* Element.__init__ makes for the module element, then those of the walk.
SetNodeCalls(L) ==
  set_node_calls_of_insert_ast_nodes(
    L, module_element, <<>>, <<>>,
    [made |-> <<[element |-> <<>>, node |-> ModuleId]>>, error |-> FALSE]).made

\* No two of the calls are made on the same element.
EachElementSetOnce(made) ==
  \A i, j \in 1..Len(made) : made[i].element = made[j].element => i = j

\* Two calls on the same element set the same node.
NodeNeverChanges(made) ==
  \A i, j \in 1..Len(made) : made[i].element = made[j].element => made[i].node = made[j].node

\* No node is set on two elements.
OneElementPerNode(made) ==
  \A i, j \in 1..Len(made) : made[i].node = made[j].node => made[i].element = made[j].element

\* The calls on an element that had a node already are calls on the element
\* of a class, made by insert_ast_node.
SetAgainOnlyForClasses(L, made) ==
  \A i, j \in 1..Len(made) :
    (i < j /\ made[i].element = made[j].element) =>
      /\ made[j].node \in DOMAIN node_element_map
      /\ inspect_isclass(node_element_map[made[j].node].object)

\* C21: in the registry a node has at most one element, the node of an
\* element is set once and never changes: set_node is not called on an
\* element that has a node already, the elements of classes included.
C21_NodeSetOnce ==
  steps # <<>> =>
    /\ OneElementPerNode(SetNodeCalls(live))
    /\ NodeNeverChanges(SetNodeCalls(live))
    /\ EachElementSetOnce(SetNodeCalls(live))

\* C21, what holds: a node has one element, the node of an element never
\* changes, and set_node is called a second time for the elements of
\* classes only.
C21_NodeNeverChanges ==
  steps # <<>> =>
    /\ OneElementPerNode(SetNodeCalls(live))
    /\ NodeNeverChanges(SetNodeCalls(live))
    /\ SetAgainOnlyForClasses(live, SetNodeCalls(live))

-----------------------------------------------------------------------------
(* The plug-in and exceptions.                                             *)

\* C23: when the modules file is missing, the plug-in ends in an error and
\* generates for no module: a run asked to generate for modules never ends
\* without an exception.
C23_MissingModulesFileIsFatal ==
  (/\ plugin # NoneObj
   /\ plugin.generate_for_modules
   /\ ~plugin.modules_file.isfile) => pc # "done"

\* The exceptions a run ends in.
Exceptions ==
  {"KeyError", "RuntimeError", "IOError", "AttributeError", "ImportError", "TypeError",
   "ValueError", "ZeroDivisionError", "OSError"}

\* The namespaces the generation of which has completed: the last statement
\* of a generator writes the file of the namespace.
NumCompleted == Cardinality(DOMAIN pypredef_files)

\* The steps of a generator an exception comes from.
RaisedBy(exception) ==
  CASE exception = "RuntimeError" -> {"insert_ast_nodes"}
    [] exception = "KeyError" -> {"remove_redundant_members_from_subclasses"}
    [] exception = "IOError" ->
         {"write_pypredef_file", "generate_predefined_completions_for_gimp_pdb"}
    [] exception = "AttributeError" -> {"generate_predefined_completions_for_gimp_pdb"}
    [] OTHER -> {}

\* A generator called on its own has ended in an exception: the exception
\* is that of the step entered last, no step was entered twice, and no file
\* is written.
GeneratorEndedInException ==
  /\ steps # <<>>
  /\ steps[Len(steps)] \in RaisedBy(pc)
  /\ IsInjective(steps)
  /\ pypredef_files = << >>

\* The plug-in counts as finished the namespaces that are completed, and
\* its loop is at the first module that is not completed.
DriverCountsCompleted ==
  /\ gimp_progress # NoneObj =>
       /\ gimp_progress.num_finished_tasks = NumCompleted
       /\ Len(calls) = NumCompleted
  /\ plugin.i <= NumCompleted + 1

PluginEndedAtFirstModule ==
  /\ plugin # NoneObj
  /\ pc \in {"TypeError", "ImportError"}
  /\ Len(plugin.module_names) = 2
  /\ plugin.i = 1
  /\ gimp_progress.num_finished_tasks = 0

-----------------------------------------------------------------------------
(* State kept from one run to the next.                                    *)

\* C22: nothing a run made is left for the next one: when the run is over
\* the registry holds no entry, and no step of the run changes the table of
\* the extra passes.
C22_NoStatePersists ==
  /\ [](pc = "done" => DOMAIN node_element_map = {})
  /\ [][module_specific_processing_functions' = module_specific_processing_functions]_vars

\* C22, what holds: the table of the extra passes is not changed by a run.
C22_TableNotModified ==
  [][module_specific_processing_functions' = module_specific_processing_functions]_vars

-----------------------------------------------------------------------------
(* A caller that registers extra passes in                                 *)
(* pypredefgen.module_specific_processing_functions and then calls         *)
(* generate_predefined_completions(module).                                *)

PrivatePango == <<U("pango")>>

\* The modules the caller generates for: "pango", "_pango" and "gimp", with
\* documentation of the module and of the classes A and B.
InputsPasses ==
  {MkLive(name, moddoc, Chain,
          [c \in ModuleClasses |->
             IF c = "A" THEN DefaultOwn(docA)
             ELSE IF c = "B" THEN DefaultOwn("d1")
             ELSE DefaultOwn(None)],
          << >>) :
     name \in {GIMP, PANGO, PrivatePango}, moddoc \in {None, "dm"},
     docA \in {None, "d1", ""}}

\* The dictionaries the caller passes to update: that of the plug-in, and
\* lists of functions for one module name.
Registrations ==
  {[m \in MODULES_FOR_WHICH_TO_IGNORE_DOCSTRINGS |-> <<"remove_class_docstrings">>]} \cup
  {[m \in {name} |-> processing_functions] :
     name \in {GIMP, PANGO},
     processing_functions \in {<<"remove_class_docstrings", "fix_empty_class_bodies">>,
                               <<"fix_empty_class_bodies", "remove_class_docstrings">>,
                               <<"insert_ast_docstring">>}}

\* dict.update
dict_update(self, other) ==
  [key \in DOMAIN self \cup DOMAIN other |->
     IF key \in DOMAIN other THEN other[key] ELSE self[key]]

\* The table is empty when pypredefgen is loaded.
InitPasses ==
  /\ live \in InputsPasses
  /\ module_specific_processing_functions = << >>
  /\ pc = "caller"
  /\ module_node = [body |-> <<>>]
  /\ node_element_map = << >>
  /\ steps = <<>>
  /\ prev_body = <<>>
  /\ gimp_progress = NoneObj
  /\ plugin = NoneObj
  /\ calls = <<>>
  /\ call = NoneObj
  /\ pypredef_files = << >>

\* pypredefgen.module_specific_processing_functions.update({...}); calls is
\* the history of the dictionaries passed.
UpdateProcessingFunctions ==
  /\ pc = "caller"
  /\ Len(calls) < MaxRegistrations
  /\ \E other \in Registrations :
       /\ module_specific_processing_functions' =
            dict_update(module_specific_processing_functions, other)
       /\ calls' = Append(calls, other)
  /\ UNCHANGED <<live, pc, module_node, node_element_map, steps, prev_body,
                 gimp_progress, plugin, call,
                 pypredef_files>>

\* The caller calls pypredefgen.generate_predefined_completions(module).
CallGeneratePredefinedCompletions ==
  /\ pc = "caller"
  /\ pc' = "insert_ast_nodes"
  /\ UNCHANGED <<live, module_node, node_element_map,
                 module_specific_processing_functions, steps, prev_body,
                 gimp_progress, plugin, calls, call,
                 pypredef_files>>

NextPasses ==
  \/ UpdateProcessingFunctions
  \/ CallGeneratePredefinedCompletions
  \/ Next

SpecPasses == InitPasses /\ [][NextPasses]_vars

\* The functions registered under the name of the walked module.
RegisteredForModule ==
  IF live.name \in DOMAIN module_specific_processing_functions
  THEN module_specific_processing_functions[live.name]
  ELSE <<>>

\* The first k of the functions, each called once, one after the other.
RECURSIVE EachOnceInOrder(_, _, _)
EachOnceInOrder(processing_functions, k, body) ==
  IF k = 0 THEN body
  ELSE apply_processing_function(live, processing_functions[k],
         EachOnceInOrder(processing_functions, k - 1, body))

\* The extra passes have a place of their own among the steps of a run:
\* once, next after move_class_level_variables_before_methods and next
\* before fix_empty_class_bodies.
ExtraPassesInPlace ==
  \A k \in 1..Len(steps) :
    steps[k] = "module_specific_processing_functions" =>
      /\ k > 1 /\ steps[k - 1] = "move_class_level_variables_before_methods"
      /\ k < Len(steps) => steps[k + 1] = "fix_empty_class_bodies"
      /\ k = Len(steps) => pc = "fix_empty_class_bodies"
      /\ \A j \in 1..Len(steps) : steps[j] = steps[k] => j = k
      /\ \A j \in 1..(k - 1) : steps[j] # "fix_empty_class_bodies"

\* A call of update leaves what is registered under the names it does not
\* pass, and no other step changes the table.
TableAdditive ==
  \A m \in DOMAIN module_specific_processing_functions :
    /\ m \in DOMAIN module_specific_processing_functions'
    /\ \/ module_specific_processing_functions'[m] = module_specific_processing_functions[m]
       \/ /\ pc = "caller"
          /\ Len(calls') = Len(calls) + 1
          /\ m \in DOMAIN calls'[Len(calls')]
          /\ module_specific_processing_functions'[m] = calls'[Len(calls')][m]

\* C27: the functions registered under the name of the module are called
\* once each, in their order, in the step after
\* move_class_level_variables_before_methods and before
\* fix_empty_class_bodies; under a name that is no key of the table no
\* function is called; and update removes nothing registered under another
\* name.
C27_ExtraPasses ==
  /\ [](/\ ExtraPassesInPlace
        /\ (steps # <<>> /\ steps[Len(steps)] = "module_specific_processing_functions") =>
             module_node.body =
               EachOnceInOrder(RegisteredForModule, Len(RegisteredForModule), prev_body)
        /\ \A k \in 1..Len(calls) : \A m \in DOMAIN calls[k] :
             m \in DOMAIN module_specific_processing_functions)
  /\ [][TableAdditive]_vars

\* The extra passes have run on "pango" after two registrations, the second
\* under another name: two functions that give another tree when called the
\* other way round, or one that gives another tree when called twice.
C27_Witness ==
  /\ steps # <<>>
  /\ steps[Len(steps)] = "module_specific_processing_functions"
  /\ live.name = PANGO
  /\ Len(calls) = 2
  /\ DOMAIN calls[2] = {GIMP}
  /\ Len(RegisteredForModule) = 2
  /\ module_node.body # apply_processing_function(live, RegisteredForModule[1],
                          apply_processing_function(live, RegisteredForModule[2], prev_body))
  /\ module_node.body # prev_body

\* The module "_pango" with extra passes registered for "pango": none ran.
C27_PrivateNameIsAnotherKey ==
  (/\ steps # <<>>
   /\ steps[Len(steps)] = "module_specific_processing_functions"
   /\ live.name = PrivatePango) => module_node.body = prev_body

====
